---- MODULE Spec2Model ----
(***************************************************************************)
(* A model of the Fathom rule engine: the unbound Ruleset and its emitter  *)
(* and adder indices, the BoundRuleset with its caches, the planner        *)
(* (_prerequisitesTo and toposort), the executor (_execute and             *)
(* InwardRule.results / OutwardRule.results) and the LHS variants.         *)
(*                                                                         *)
(* Rules are records.  Inward rules are identified by their position in    *)
(* Ruleset._inRules (1..n); the outward rule a get runs is OutId.          *)
(* Insertion-ordered JS Sets and Maps are sequences without duplicates.    *)
(***************************************************************************)
EXTENDS Integers, Sequences, FiniteSets, TLC

\* ------------------------------------------------------------------ bounds
\* Elements of the bound document, in document order 1..NumElements.
NumElements == 2
\* Longest list of inward rules passed to ruleset().
MaxRules == 3
\* Number of get() calls made on one bound ruleset.
MaxGets == 2

Elements == 1..NumElements
Types == {"A", "B"}

\* `undefined` for a type, a score factor, a note, an element and a key.
NoType == "undefinedType"
NoScore == -1
NoNote == "undefinedNote"
NoElement == 0
NoKey == "undefinedKey"

\* The outward rule that a get executes (a keyed one or the synthetic one).
OutId == 0

\* The error a call ends with; NoError when it returns.
NoError == "ok"

\* ------------------------------------------------------- sequence helpers
Range(s) == {s[i] : i \in 1..Len(s)}

\* Set.add on an insertion-ordered set.
SetAdd(s, x) == IF x \in Range(s) THEN s ELSE Append(s, x)

\* NiceSet.extend: add every item of t, in order.
RECURSIVE Extend(_, _)
Extend(s, t) == IF t = <<>> THEN s ELSE Extend(SetAdd(s, Head(t)), Tail(t))

\* utils.reversed
Reversed(s) == [i \in 1..Len(s) |-> s[Len(s) + 1 - i]]

\* Array.prototype.filter with a per-item test given as a set of kept items.
RECURSIVE FilterIn(_, _)
FilterIn(s, keep) ==
    IF s = <<>> THEN <<>>
    ELSE IF Head(s) \in keep THEN <<Head(s)>> \o FilterIn(Tail(s), keep)
    ELSE FilterIn(Tail(s), keep)

\* The members of a set of integers in ascending order: document order for
\* elements, insertion order for the positions of rules.
RECURSIVE Ascending(_)
Ascending(S) ==
    IF S = {} THEN <<>>
    ELSE LET m == CHOOSE x \in S : \A y \in S : x <= y
         IN <<m>> \o Ascending(S \ {m})

RECURSIVE Product(_)
Product(s) == IF s = <<>> THEN 1 ELSE Head(s) * Product(Tail(s))

\* ------------------------------------------------------------ LHS values
\* kind    : "dom" | "type" | "max" | "bestCluster" | "and"
\* sel     : the elements querySelectorAll(selector) matches (dom only)
\* type    : the input type (type, max and bestCluster)
\* args    : the type() LHSs given as arguments (and only)
\* options : the splittingDistance given to bestCluster()
\* pred    : the elements whose fnode satisfies the when() predicate; the
\*           predicate of a new LHS, () => true, is Elements
SplittingDistance == 3
NoOptions == 0

Lhs(kind, sel, type, args, options) ==
    [kind |-> kind, sel |-> sel, type |-> type, args |-> args,
     options |-> options, pred |-> Elements]

Dom(sel) == Lhs("dom", sel, NoType, <<>>, NoOptions)
OfType(t) == Lhs("type", {}, t, <<>>, NoOptions)
Max(t) == Lhs("max", {}, t, <<>>, NoOptions)
\* new BestClusterLhs(type, options): options || {splittingDistance: 3}
BestCluster(t, options) ==
    Lhs("bestCluster", {}, t, <<>>,
        IF options = NoOptions THEN SplittingDistance ELSE options)
And(lhss) == Lhs("and", {}, NoType, lhss, NoOptions)

\* Every TypeLhs taken, TypeMaxLhs and BestClusterLhs too.
andErrorInstanceOf(lhss) ==
    IF \E i \in 1..Len(lhss) : lhss[i].kind \notin {"type", "max", "bestCluster"}
    THEN "unsupportedAnd" ELSE NoError

\* AndLhs.constructor's sideToTypeLhs: an argument whose LHS is not of the
\* class TypeLhs itself is refused.
andError(lhss) ==
    IF \E i \in 1..Len(lhss) : lhss[i].kind # "type"
    THEN "unsupportedAnd" ELSE NoError

\* new AndLhs(lhss): the LHS, or the error.
newAnd(lhss) == [err |-> andError(lhss), lhs |-> And(lhss)]

\* clone(): DomLhs has its own, TypeLhs has one that its subclasses inherit
\* and that passes the type alone, and AndLhs has none.
hasClone(lhs) == lhs.kind # "and"

clone(lhs) ==
    CASE lhs.kind = "dom" -> Dom(lhs.sel)
      [] lhs.kind = "type" -> OfType(lhs.type)
      [] lhs.kind = "max" -> Max(lhs.type)
      [] lhs.kind = "bestCluster" -> BestCluster(lhs.type, NoOptions)

\* Lhs.when: a clone of the LHS carrying the predicate, or the TypeError of
\* calling a clone that is not there.
When(lhs, p) ==
    IF hasClone(lhs)
    THEN [err |-> "ok", lhs |-> [clone(lhs) EXCEPT !.pred = p]]
    ELSE [err |-> "notAFunction", lhs |-> lhs]

guaranteedType(lhs) ==
    IF lhs.kind \in {"type", "max", "bestCluster"} THEN lhs.type ELSE NoType

aggregatedType(lhs) ==
    IF lhs.kind \in {"max", "bestCluster"} THEN lhs.type ELSE NoType

typesMentioned(lhs) ==
    CASE lhs.kind = "dom" -> <<>>
      [] lhs.kind \in {"type", "max", "bestCluster"} -> <<lhs.type>>
      [] lhs.kind = "and" -> Extend(<<>>, [i \in 1..Len(lhs.args) |-> lhs.args[i].type])

possibleTypeCombinations(lhs) ==
    IF lhs.kind = "dom" THEN <<>> ELSE <<typesMentioned(lhs)>>

\* ------------------------------------------------------------ RHS values
\* An inward RHS yields, for every input fnode, the fact
\*   {element, type, score, note, conserveScore}
\* and raises the callback's error on the elements of throwsOn.  ptypes and
\* cct are what possibleEmissions() reports.  An outward RHS has a key.
InRhs(t, sc, nt, cons, el, thr, pts, cct) ==
    [out |-> FALSE, key |-> NoKey, type |-> t, score |-> sc, note |-> nt,
     conserveScore |-> cons, element |-> el, throwsOn |-> thr,
     ptypes |-> pts, cct |-> cct]

OutRhs(k) ==
    [out |-> TRUE, key |-> k, type |-> NoType, score |-> NoScore, note |-> NoNote,
     conserveScore |-> FALSE, element |-> NoElement, throwsOn |-> {},
     ptypes |-> {}, cct |-> FALSE]

\* type(t) with optional score and note: the RHS names its type.
TypeRhs(t, sc, nt) == InRhs(t, sc, nt, FALSE, NoElement, {}, {t}, TRUE)
\* score(x) alone: the type stays the LHS's.
ScoreRhs(sc, nt, thr) == InRhs(NoType, sc, nt, FALSE, NoElement, thr, {}, FALSE)

possibleEmissions(rhs) == [couldChangeType |-> rhs.cct, possibleTypes |-> rhs.ptypes]

rule(lhs, rhs) == [lhs |-> lhs, rhs |-> rhs]

\* rule instanceof InwardRule, rule instanceof OutwardRule
IsRule(x) == "rhs" \in DOMAIN x
IsInward(r) == ~r.rhs.out

\* An argument of ruleset() that is no rule.
NotARule == [junk |-> TRUE]

\* ------------------------------------------------------------------ rules
\* InwardRule.typesItCouldEmit raises when it cannot tell the emitted type.
\* Undetermined only when the LHS guarantees no type.
emissionUndeterminedWithoutType(r) ==
    /\ guaranteedType(r.lhs) = NoType
    /\ possibleEmissions(r.rhs).possibleTypes = {}

emissionUndetermined(r) ==
    LET rhs == possibleEmissions(r.rhs)
    IN /\ ~(~rhs.couldChangeType /\ guaranteedType(r.lhs) # NoType)
       /\ rhs.possibleTypes = {}

typesItCouldEmit(r) ==
    LET rhs == possibleEmissions(r.rhs)
    IN IF ~rhs.couldChangeType /\ guaranteedType(r.lhs) # NoType
       THEN {guaranteedType(r.lhs)}
       ELSE rhs.possibleTypes

\* Every type it could emit, the LHS's own included.
typesItCouldAddKeepingOwn(r) == typesItCouldEmit(r)

typesItCouldAdd(r) == typesItCouldEmit(r) \ {guaranteedType(r.lhs)}

\* Rule._typesFinalized, the base class: the aggregated type, if any.
baseTypesFinalized(r) ==
    IF aggregatedType(r.lhs) = NoType THEN <<>> ELSE <<aggregatedType(r.lhs)>>

\* InwardRule._typesFinalized's inner typesThatCouldChange().
RECURSIVE combosThatCouldChange(_, _, _)
combosThatCouldChange(combos, ptypes, ret) ==
    IF combos = <<>> THEN ret
    ELSE combosThatCouldChange(
            Tail(combos), ptypes,
            IF \E rhsType \in ptypes : rhsType \notin Range(Head(combos))
            THEN Extend(ret, Head(combos))
            ELSE ret)

\* No type could change.
typesThatCouldChangeNone(r) == <<>>

typesThatCouldChange(r) ==
    LET emissions == possibleEmissions(r.rhs)
    IN IF emissions.couldChangeType
       THEN combosThatCouldChange(possibleTypeCombinations(r.lhs),
                                  emissions.possibleTypes, <<>>)
       ELSE <<>>

\* Every rule finalizing what an inward rule would.
typesFinalizedAsInward(r) ==
    Extend(typesThatCouldChange(r), baseTypesFinalized(r))

\* InwardRule._typesFinalized and OutwardRule._typesFinalized.
typesFinalized(r) ==
    IF IsInward(r)
    THEN Extend(typesThatCouldChange(r), baseTypesFinalized(r))
    ELSE Extend(typesMentioned(r.lhs), baseTypesFinalized(r))

\* ------------------------------------------------- the unbound Ruleset
\* Ruleset.constructor: inward rules in order of insertion, the key -> rule
\* map of the outward rules (a later rule replaces an earlier one with the
\* same key), and the two indices type -> [rules].  ok is FALSE when
\* typesItCouldEmit raised for one of the rules.
rulesThatCouldEmit(inRules, type) ==
    Ascending({i \in 1..Len(inRules) : type \in typesItCouldEmit(inRules[i])})

rulesThatCouldAdd(inRules, type) ==
    Ascending({i \in 1..Len(inRules) : type \in typesItCouldAdd(inRules[i])})

RECURSIVE SelectRules(_, _)
SelectRules(rules, inward) ==
    IF rules = <<>> THEN <<>>
    ELSE IF IsInward(Head(rules)) = inward
         THEN <<Head(rules)>> \o SelectRules(Tail(rules), inward)
         ELSE SelectRules(Tail(rules), inward)

\* Map.set(key, rule) over the outward rules, in order.
RECURSIVE MapSetAll(_, _)
MapSetAll(m, outs) ==
    IF outs = <<>> THEN m
    ELSE LET o == Head(outs)
             at == {i \in 1..Len(m) : m[i].rhs.key = o.rhs.key}
         IN MapSetAll(IF at = {} THEN Append(m, o)
                      ELSE [i \in 1..Len(m) |-> IF i \in at THEN o ELSE m[i]],
                      Tail(outs))

\* The keys of the two index maps: setDefault(map, type, () => []).push(rule)
\* makes an entry for a type when a rule is indexed under it.
indexKeys(inRules) ==
    {<<"emit", t>> : t \in {u \in Types : rulesThatCouldEmit(inRules, u) # <<>>}}
        \cup {<<"add", t>> : t \in {u \in Types : rulesThatCouldAdd(inRules, u) # <<>>}}

indexed(inRules, outRules) ==
    [ok |-> \A i \in 1..Len(inRules) : ~emissionUndetermined(inRules[i]),
     inRules |-> inRules,
     outRules |-> outRules,
     keys |-> indexKeys(inRules),
     rulesThatCouldEmit |-> [t \in Types |-> rulesThatCouldEmit(inRules, t)],
     rulesThatCouldAdd |-> [t \in Types |-> rulesThatCouldAdd(inRules, t)]]

\* The error the constructor's loop raises at the first argument it cannot
\* take: typesItCouldEmit's for an inward rule, its own for what is no rule.
RECURSIVE constructionError(_)
constructionError(rules) ==
    IF rules = <<>> THEN NoError
    ELSE IF ~IsRule(Head(rules)) THEN "notARule"
    ELSE IF IsInward(Head(rules)) /\ emissionUndetermined(Head(rules))
         THEN "underspecifiedEmission"
    ELSE constructionError(Tail(rules))

\* given and err are history: the arguments, and how the constructor ended.
\* No ruleset exists after an error: ok is FALSE and nothing is indexed.
constructed(rules, err) ==
    IF err = NoError
    THEN [given |-> rules, err |-> err] @@
         indexed(SelectRules(rules, TRUE), MapSetAll(<<>>, SelectRules(rules, FALSE)))
    ELSE [given |-> rules, err |-> err, ok |-> FALSE,
          inRules |-> <<>>, outRules |-> <<>>, keys |-> {},
          rulesThatCouldEmit |-> [t \in Types |-> <<>>],
          rulesThatCouldAdd |-> [t \in Types |-> <<>>]]

Ruleset(rules) == constructed(rules, constructionError(rules))

\* The inward rules alone.
rulesInwardOnly(rs) == rs.inRules

\* Ruleset.rules(): the inward rules, then the values of the map of outward
\* rules.
allRules(rs) == rs.inRules \o rs.outRules

inwardRulesThatCouldEmit(rs, type) == rs.rulesThatCouldEmit[type]
inwardRulesThatCouldAdd(rs, type) == rs.rulesThatCouldAdd[type]

\* Rule.prerequisites: the emitters of every finalized type, then the adders
\* of every mentioned type, as a NiceSet (first occurrence keeps its place).
RECURSIVE extendEach(_, _, _, _)
extendEach(prereqs, types, rs, emit) ==
    IF types = <<>> THEN prereqs
    ELSE extendEach(
            Extend(prereqs, IF emit THEN inwardRulesThatCouldEmit(rs, Head(types))
                            ELSE inwardRulesThatCouldAdd(rs, Head(types))),
            Tail(types), rs, emit)

\* The emitters of the finalized types alone.
prerequisitesEmittersOnly(rs, r) ==
    extendEach(<<>>, typesFinalized(r), rs, TRUE)

prerequisites(rs, r) ==
    extendEach(extendEach(<<>>, typesFinalized(r), rs, TRUE),
               typesMentioned(r.lhs), rs, FALSE)

\* ------------------------------------------------------------ the planner
\* The rule with the given identity: the outward rule being run, or an
\* inward rule of the ruleset.
ruleOf(rs, outRule, id) == IF id = OutId THEN outRule ELSE rs.inRules[id]

\* The Map(prereq: [rulesItIsNeededBy]) of _prerequisitesTo, as a sequence of
\* entries in order of insertion.
mapHas(m, k) == \E i \in 1..Len(m) : m[i].key = k
mapGet(m, k) == (CHOOSE e \in Range(m) : e.key = k).val
mapKeys(m) == [i \in 1..Len(m) |-> m[i].key]

\* setDefault(undonePrereqs, prereq, () => []).push(rule)
mapPush(m, k, v) ==
    IF mapHas(m, k)
    THEN [i \in 1..Len(m) |-> IF m[i].key = k
                              THEN [key |-> k, val |-> Append(m[i].val, v)]
                              ELSE m[i]]
    ELSE Append(m, [key |-> k, val |-> <<v>>])

\* BoundRuleset._prerequisitesTo(rule, undonePrereqs): prereqs is what is left
\* of the loop over rule.prerequisites(this).
RECURSIVE prerequisitesLoop(_, _, _, _, _, _)
prerequisitesLoop(rs, outRule, doneRules, id, prereqs, undonePrereqs) ==
    IF prereqs = <<>> THEN undonePrereqs
    ELSE LET prereq == Head(prereqs)
             alreadyAdded == mapHas(undonePrereqs, prereq)
             pushed == mapPush(undonePrereqs, prereq, id)
         IN prerequisitesLoop(
                rs, outRule, doneRules, id, Tail(prereqs),
                IF prereq \in doneRules THEN undonePrereqs
                ELSE IF alreadyAdded THEN pushed
                ELSE prerequisitesLoop(rs, outRule, doneRules, prereq,
                                       prerequisites(rs, ruleOf(rs, outRule, prereq)),
                                       pushed))

\* _prerequisitesTo without its recursive call: only the rule's own undone
\* prerequisites are hooked up, which C5 rules out.
prerequisitesToDirect(rs, outRule, doneRules, id) ==
    LET undone == FilterIn(prerequisites(rs, ruleOf(rs, outRule, id)),
                           Range(prerequisites(rs, ruleOf(rs, outRule, id)))
                               \ doneRules)
    IN [i \in 1..Len(undone) |-> [key |-> undone[i], val |-> <<id>>]]

prerequisitesTo(rs, outRule, doneRules, id) ==
    prerequisitesLoop(rs, outRule, doneRules, id,
                      prerequisites(rs, ruleOf(rs, outRule, id)), <<>>)

\* utils.toposort(nodes, nodesThatNeed): a depth-first walk from the first
\* node still to do, which puts a node after every node that needs it, and
\* raises CycleError when it meets a node that is in progress.
\* s = [ret, todo, inProgress, cycle].
visited(node, s) ==
    IF s.cycle THEN s
    ELSE [s EXCEPT !.inProgress = @ \ {node},
                   !.todo = FilterIn(@, Range(@) \ {node}),
                   !.ret = Append(@, node)]

RECURSIVE visit(_, _, _)
RECURSIVE visitEach(_, _, _)
visit(graph, node, s) ==
    IF s.cycle THEN s
    ELSE IF node \in s.inProgress THEN [s EXCEPT !.cycle = TRUE]
    ELSE IF node \in Range(s.todo)
         THEN visited(node,
                      visitEach(graph,
                                IF mapHas(graph, node) THEN mapGet(graph, node)
                                ELSE <<>>,
                                [s EXCEPT !.inProgress = @ \cup {node}]))
         ELSE s

visitEach(graph, nodes, s) ==
    IF nodes = <<>> THEN s
    ELSE visitEach(graph, Tail(nodes), visit(graph, Head(nodes), s))

RECURSIVE toposortLoop(_, _)
toposortLoop(graph, s) ==
    IF s.cycle \/ s.todo = <<>> THEN s
    ELSE toposortLoop(graph, visit(graph, Head(s.todo), s))

toposort(nodes, graph) ==
    toposortLoop(graph, [ret |-> <<>>, todo |-> nodes, inProgress |-> {},
                         cycle |-> FALSE])

\* toposort(...).concat([rule]) in place of [rule].concat(toposort(...)):
\* the requested rule would run first, which C3 rules out.
sortedFromRuleLast(s) ==
    [cycle |-> s.cycle,
     sorted |-> IF s.cycle THEN <<>> ELSE s.ret \o <<OutId>>]

\* The first half of BoundRuleset._execute: the rules to run, the requested
\* rule first, or the cycle error.
sortedFrom(s) ==
    [cycle |-> s.cycle,
     sorted |-> IF s.cycle THEN <<>> ELSE <<OutId>> \o s.ret]

\* A sort whose cycle error is swallowed, so that the rules sorted before the
\* cycle was met are run, which C4 rules out.
sortPrereqsUnchecked(prereqs) ==
    [cycle |-> FALSE,
     sorted |-> <<OutId>> \o toposort(mapKeys(prereqs), prereqs).ret]

sortPrereqs(prereqs) == sortedFrom(toposort(mapKeys(prereqs), prereqs))

plan(rs, outRule, doneRules) ==
    sortPrereqs(prerequisitesTo(rs, outRule, doneRules, OutId))

\* utils.getDefault(map, key, defaultMaker) for every asked key: the keys
\* the map holds afterwards.  A default is returned and not stored.
getDefault(keys, asked) == keys

\* The index entries rule.prerequisites(ruleset) asks for: the emitters of
\* the types r finalizes and the adders of the types it mentions.
askedBy(r) ==
    {<<"emit", t>> : t \in Range(typesFinalized(r))}
        \cup {<<"add", t>> : t \in Range(typesMentioned(r.lhs))}

\* The index entries _prerequisitesTo asks for: those of the rule to run and
\* of every rule it adds to the map.
lookups(rs, outRule, undonePrereqs) ==
    UNION {askedBy(ruleOf(rs, outRule, id)) :
             id \in {OutId} \cup Range(mapKeys(undonePrereqs))}

\* The Ruleset, whose index maps the bound rulesets share, after the rule
\* was planned.
afterPlanning(rs, outRule, doneRules) ==
    [rs EXCEPT !.keys = getDefault(@, lookups(rs, outRule,
                            prerequisitesTo(rs, outRule, doneRules, OutId)))]

\* --------------------------------------------------- the bound ruleset
\* A fnode's record for a type it does not bear yet: score 1, no note.
NoRecord == [has |-> FALSE, score |-> 1, note |-> NoNote]

\* BoundRuleset.constructor: empty caches, no rule done.  invoked,
\* multiplied, scans and clusterings are history: how often results() of
\* each inward rule was entered, every score multiplication made, in order,
\* and how often utils.maxes and clusters() were called.
BoundRuleset(rs) ==
    [doneRules |-> {},
     typeCache |-> [t \in Types |-> <<>>],
     maxCache |-> [t \in Types |-> [has |-> FALSE, val |-> <<>>]],
     elementCache |-> {},
     created |-> [e \in Elements |-> 0],
     fn |-> [e \in Elements |-> [t \in Types |-> NoRecord]],
     err |-> NoError,
     invoked |-> [i \in 1..Len(rs.inRules) |-> 0],
     multiplied |-> <<>>,
     scans |-> 0,
     clusterings |-> 0]

Raise(b, error) == [b EXCEPT !.err = error]

\* new Fnode(element, this): created counts the fnodes made of an element.
newFnode(b, element) ==
    [b EXCEPT !.elementCache = @ \cup {element}, !.created[element] = @ + 1]

\* A fnode made at every lookup.
fnodeForElementFresh(b, element) == newFnode(b, element)

\* BoundRuleset.fnodeForElement: setDefault(elementCache, element, new Fnode)
fnodeForElement(b, element) ==
    IF element \in b.elementCache THEN b ELSE newFnode(b, element)

\* fnodeForElement for every match of a selector, in order.
RECURSIVE fnodesForElements(_, _)
fnodesForElements(b, matches) ==
    IF matches = <<>> THEN b
    ELSE fnodesForElements(fnodeForElement(b, Head(matches)), Tail(matches))

\* ------------------------------------------------------------- fnodes
hasType(b, e, type) == b.fn[e][type].has
scoreSoFarFor(b, e, type) == b.fn[e][type].score
typesSoFar(b, e) == {t \in Types : b.fn[e][t].has}

\* Fnode.multiplyScoreFor: the type is added with score 1 when absent.
multiplyScoreFor(b, e, type, score) ==
    [b EXCEPT !.fn[e][type] = [@ EXCEPT !.has = TRUE, !.score = @ * score]]

\* Fnode.setNoteFor: a note that is set is never overwritten.
setNoteFor(b, e, type, note) ==
    IF b.fn[e][type].note # NoNote
    THEN IF note # NoNote THEN Raise(b, "noteOverwrite") ELSE b
    ELSE [b EXCEPT !.fn[e][type] = [@ EXCEPT !.has = TRUE, !.note = note]]

\* Fnode.conserveScoreFrom: multiply in the left fnode's score for leftType.
conserveScoreFrom(b, e, leftFnode, leftType, rightType) ==
    multiplyScoreFor(b, e, rightType, scoreSoFarFor(b, leftFnode, leftType))

\* History of one score multiplication.
logMultiply(b, id, step, source, target, type, factor) ==
    [b EXCEPT !.multiplied = Append(@, [rule |-> id, step |-> step,
                                        source |-> source, target |-> target,
                                        type |-> type, factor |-> factor])]

\* utils.maxes: the items whose score for the type is the highest, in order.
maxes(b, fnodes, type) ==
    FilterIn(fnodes, {e \in Range(fnodes) :
                        \A o \in Range(fnodes) :
                            scoreSoFarFor(b, e, type) >= scoreSoFarFor(b, o, type)})

\* ---------------------------------------------------------- documents
\* A document is a tree of elements numbered in document order from its root,
\* 1: parent[n] is the parent of element n, NoNode for the root, and tag[n]
\* its tag name.
NoNode == 0

\* The element and its ancestors, from the element up to the root.
RECURSIVE pathToRoot(_, _)
pathToRoot(doc, n) ==
    IF n = NoNode THEN <<>> ELSE <<n>> \o pathToRoot(doc, doc.parent[n])

\* Node.contains: an element contains itself and its descendants.
contains(doc, a, x) == a \in Range(pathToRoot(doc, x))

\* The element and its ancestors up to the one that contains other.
RECURSIVE pathToCommon(_, _, _)
pathToCommon(doc, n, other) ==
    IF contains(doc, n, other) THEN <<n>>
    ELSE <<n>> \o pathToCommon(doc, doc.parent[n], other)

\* The elements that have the same parent as n, n excluded.
siblings(doc, n) == {x \in DOMAIN doc.parent : x # n /\ doc.parent[x] = doc.parent[n]}

\* The stride nodes at one level of the descent from the common ancestor to
\* the left and the right element: have is <<left there, right there>>.  Two
\* siblings are separated by the siblings between them; otherwise what
\* follows the left one and what precedes the right one lies between.
numStrides(doc, have, l, r) ==
    IF have[1] /\ have[2] /\ l = r THEN 0
    ELSE IF have[1] /\ have[2] /\ doc.parent[l] = doc.parent[r]
    THEN Cardinality({x \in siblings(doc, l) : l < x /\ x < r})
    ELSE (IF have[1] THEN Cardinality({x \in siblings(doc, l) : x > l}) ELSE 0)
         + (IF have[2] THEN Cardinality({x \in siblings(doc, r) : x < r}) ELSE 0)

\* The cost of one level of the descent: left and right are the paths from
\* the common ancestor down to the two elements.
levelCost(doc, costs, left, right, k) ==
    (IF k > Len(left) \/ k > Len(right) THEN costs.differentDepthCost
     ELSE IF doc.tag[left[k]] = doc.tag[right[k]] THEN costs.sameTagCost
     ELSE costs.differentTagCost)
    + (IF costs.strideCost = 0 THEN 0
       ELSE costs.strideCost
              * numStrides(doc, <<k <= Len(left), k <= Len(right)>>,
                           left[IF k <= Len(left) THEN k ELSE 1],
                           right[IF k <= Len(right) THEN k ELSE 1]))

RECURSIVE descentCost(_, _, _, _, _)
descentCost(doc, costs, left, right, k) ==
    IF k > Len(left) /\ k > Len(right) THEN 0
    ELSE levelCost(doc, costs, left, right, k)
            + descentCost(doc, costs, left, right, k + 1)

\* The same cost with the first element taken for the left one, wherever it
\* is in the document.
structuralCostAsGiven(doc, costs, a, c) ==
    descentCost(doc, costs,
                Reversed(pathToCommon(doc, a, c)),
                Reversed(pathToCommon(doc, c, a)),
                1)

\* The cost of the way between two elements neither of which contains the
\* other; the left one is the one that comes first in the document.
structuralCost(doc, costs, a, c) ==
    descentCost(doc, costs,
                Reversed(pathToCommon(doc, IF a < c THEN a ELSE c, IF a < c THEN c ELSE a)),
                Reversed(pathToCommon(doc, IF a < c THEN c ELSE a, IF a < c THEN a ELSE c)),
                1)

\* Number.MAX_VALUE
MaxValue == 1000000

\* distance(a, c, costs): costs.additionalCost[<<a, c>>] is what the
\* caller's additionalCost(a, c) returns.
distance(doc, costs, a, c) ==
    IF a = c THEN 0
    ELSE IF contains(doc, a, c) \/ contains(doc, c, a) THEN MaxValue
    ELSE structuralCost(doc, costs, a, c) + costs.additionalCost[<<a, c>>]

\* The default costs of distance(), over the elements of a document.
DefaultCosts(doc) ==
    [differentDepthCost |-> 2, differentTagCost |-> 2, sameTagCost |-> 1,
     strideCost |-> 1,
     additionalCost |-> [p \in (DOMAIN doc.parent) \X (DOMAIN doc.parent) |-> 0]]

\* ----------------------------------------------------------- clusters
\* The distance matrix of clusters(): the distance function is asked once for
\* every pair of items, the one that comes first in items given first.
place(items, x) == CHOOSE i \in 1..Len(items) : items[i] = x

matrixOf(items, d) ==
    [p \in Range(items) \X Range(items) |->
        IF place(items, p[1]) <= place(items, p[2]) THEN d[p] ELSE d[<<p[2], p[1]>>]]

\* The least member of a non-empty set of numbers.
least(S) == CHOOSE x \in S : \A y \in S : x <= y

\* The distance between two clusters: that of their closest items.
link(m, c1, c2) == least({m[<<x, y>>] : x \in Range(c1), y \in Range(c2)})

\* The pairs of clusters, by position.
pairsOf(cs) == {p \in (1..Len(cs)) \X (1..Len(cs)) : p[1] < p[2]}

\* The closest pair of clusters, the first one of the equally close.
closest(m, cs) ==
    CHOOSE p \in pairsOf(cs) :
        \A q \in pairsOf(cs) :
            \/ link(m, cs[p[1]], cs[p[2]]) < link(m, cs[q[1]], cs[q[2]])
            \/ /\ link(m, cs[p[1]], cs[p[2]]) = link(m, cs[q[1]], cs[q[2]])
               /\ (p[1] < q[1] \/ (p[1] = q[1] /\ p[2] <= q[2]))

\* A merge that keeps the first of the two clusters alone.
mergeDropping(cs, p) ==
    [i \in 1..(Len(cs) - 1) |->
        IF i = p[1] THEN cs[p[1]]
        ELSE IF i < p[2] THEN cs[i] ELSE cs[i + 1]]

\* The clusters with those at p merged into one, at the place of the first.
merge(cs, p) ==
    [i \in 1..(Len(cs) - 1) |->
        IF i = p[1] THEN cs[p[1]] \o cs[p[2]]
        ELSE IF i < p[2] THEN cs[i] ELSE cs[i + 1]]

\* One merge at most.
mergeCloseOnce(m, splittingDistance, cs) ==
    IF Len(cs) <= 1 THEN cs
    ELSE IF link(m, cs[closest(m, cs)[1]], cs[closest(m, cs)[2]]) > splittingDistance
    THEN cs
    ELSE merge(cs, closest(m, cs))

\* Merge the closest two clusters until they are farther apart than
\* splittingDistance or one cluster is left.
RECURSIVE mergeClose(_, _, _)
mergeClose(m, splittingDistance, cs) ==
    IF Len(cs) <= 1 THEN cs
    ELSE IF link(m, cs[closest(m, cs)[1]], cs[closest(m, cs)[2]]) > splittingDistance
    THEN cs
    ELSE mergeClose(m, splittingDistance, merge(cs, closest(m, cs)))

\* clusters(items, splittingDistance, getDistance): every item starts as a
\* cluster of its own.
clusters(items, splittingDistance, d) ==
    mergeClose(matrixOf(items, d), splittingDistance,
               [i \in 1..Len(items) |-> <<items[i]>>])

\* --------------------------------------------------------- Lhs.fnodes
\* Lhs.fnodesSatisfyingWhen
fnodesSatisfyingWhen(lhs, fnodes) == FilterIn(fnodes, lhs.pred)

\* TypeLhs.fnodes
typeFnodes(b, lhs) == fnodesSatisfyingWhen(lhs, b.typeCache[lhs.type])

\* The fnodes an LHS starts from, and the bound ruleset after computing
\* them: DomLhs.fnodes makes a fnode of every match, TypeMaxLhs.fnodes fills
\* maxCache, AndLhs.fnodes starts from the fnodes of its first argument.
domFnodes(b, lhs, matches) ==
    [b |-> fnodesForElements(b, matches),
     fnodes |-> fnodesSatisfyingWhen(lhs, matches)]

\* A maxCache entry made before the maxes are known, which C6 rules out.
maxCachedEarly(b, type, found) ==
    [b |-> [b EXCEPT !.maxCache[type] = [has |-> TRUE, val |-> <<>>]],
     fnodes |-> found]

\* setDefault(ruleset.maxCache, type, maxFnodesOfType) when the type is absent.
maxCached(b, type, found) ==
    [b |-> [b EXCEPT !.maxCache[type] = [has |-> TRUE, val |-> found],
                     !.scans = @ + 1],
     fnodes |-> found]

\* The document of the bound ruleset: a body whose children are the
\* elements, all div; element e is its node e + 1.
Doc ==
    [parent |-> [n \in 1..(NumElements + 1) |-> IF n = 1 THEN NoNode ELSE 1],
     tag |-> [n \in 1..(NumElements + 1) |-> IF n = 1 THEN "body" ELSE "div"]]

nodeOf(e) == e + 1

\* (a, b) => distance(a, b, this._options), over the fnodes of the document
fnodeDistances ==
    [p \in Elements \X Elements |->
        distance(Doc, DefaultCosts(Doc), nodeOf(p[1]), nodeOf(p[2]))]

\* utils.sum of the scores of the fnodes of a cluster for the type.
RECURSIVE sumOfScores(_, _, _)
sumOfScores(b, type, clust) ==
    IF clust = <<>> THEN 0
    ELSE scoreSoFarFor(b, Head(clust), type) + sumOfScores(b, type, Tail(clust))

\* utils.max by sum: the first of the clusters whose sum is the highest.
maxBySum(b, type, clusts) ==
    clusts[least({i \in 1..Len(clusts) :
                    \A j \in 1..Len(clusts) :
                        sumOfScores(b, type, clusts[i]) >= sumOfScores(b, type, clusts[j])})]

\* The last of the clusters, whatever its sum.
bestClusterOfLast(b, lhs, fnodesOfType) ==
    IF fnodesOfType = <<>> THEN <<>>
    ELSE clusters(fnodesOfType, lhs.options, fnodeDistances)[
            Len(clusters(fnodesOfType, lhs.options, fnodeDistances))]

\* BestClusterLhs.fnodes
bestClusterOf(b, lhs, fnodesOfType) ==
    IF fnodesOfType = <<>> THEN <<>>
    ELSE maxBySum(b, lhs.type, clusters(fnodesOfType, lhs.options, fnodeDistances))

\* The bound ruleset after BestClusterLhs.fnodes: clusters() is called
\* whenever there are fnodes of the type.
clustered(b, fnodesOfType) ==
    IF fnodesOfType = <<>> THEN b ELSE [b EXCEPT !.clusterings = @ + 1]

lhsFnodes(b, lhs) ==
    CASE lhs.kind = "dom" ->
            domFnodes(b, lhs, Ascending(lhs.sel \cap Elements))
      [] lhs.kind = "max" /\ b.maxCache[lhs.type].has ->
            [b |-> b, fnodes |-> b.maxCache[lhs.type].val]
      [] lhs.kind = "max" /\ ~b.maxCache[lhs.type].has ->
            maxCached(b, lhs.type, maxes(b, typeFnodes(b, lhs), lhs.type))
      [] lhs.kind = "bestCluster" ->
            [b |-> clustered(b, typeFnodes(b, lhs)),
             fnodes |-> bestClusterOf(b, lhs, typeFnodes(b, lhs))]
      [] OTHER ->
            [b |-> b,
             fnodes |-> typeFnodes(b, IF lhs.kind = "and" THEN lhs.args[1] ELSE lhs)]

\* AndLhs.fnodes is a generator: a fnode is tested for the types of the other
\* arguments when the consumer reaches it.
lhsYields(b, lhs, e) ==
    lhs.kind = "and" =>
        \A i \in 2..Len(lhs.args) : hasType(b, e, lhs.args[i].type)

\* ------------------------------------------------------- the executor
\* rhs.fact(leftFnode, leftType): the fact of an inward RHS.
factOf(rhs) ==
    [element |-> rhs.element, type |-> rhs.type, score |-> rhs.score,
     note |-> rhs.note, conserveScore |-> rhs.conserveScore]

\* The type a fact's score and note are about: the fact's own, else the
\* type the LHS guarantees.
rightTypeOf(fact, lhs) ==
    IF fact.type # NoType THEN fact.type ELSE guaranteedType(lhs)

\* A conserveScore step that lets a fact without a left type pass.
conserveStepUnchecked(b, id, lhs, fact, left, right) ==
    IF ~fact.conserveScore \/ guaranteedType(lhs) = NoType THEN b
    ELSE logMultiply(conserveScoreFrom(b, right, left, guaranteedType(lhs),
                                       rightTypeOf(fact, lhs)),
                     id, "conserveScore", left, right, rightTypeOf(fact, lhs),
                     scoreSoFarFor(b, left, guaranteedType(lhs)))

\* The conserveScore step of updateFnode.
conserveStep(b, id, lhs, fact, left, right) ==
    LET leftType == guaranteedType(lhs)
        rightType == rightTypeOf(fact, lhs)
    IN IF ~fact.conserveScore THEN b
       ELSE IF leftType # NoType
            THEN logMultiply(conserveScoreFrom(b, right, left, leftType, rightType),
                             id, "conserveScore", left, right, rightType,
                             scoreSoFarFor(b, left, leftType))
            ELSE Raise(b, "conserveScoreWithoutType")

\* The score step of updateFnode.
scoreStep(b, id, lhs, fact, left, right) ==
    LET rightType == rightTypeOf(fact, lhs)
    IN IF b.err # NoError \/ fact.score = NoScore THEN b
       ELSE IF rightType # NoType
            THEN logMultiply(multiplyScoreFor(b, right, rightType, fact.score),
                             id, "score", left, right, rightType, fact.score)
            ELSE Raise(b, "scoreWithoutInferableType")

\* The type-and-note step of updateFnode.
noteStep(b, lhs, fact, right) ==
    LET rightType == rightTypeOf(fact, lhs)
    IN IF b.err # NoError \/ (fact.type = NoType /\ fact.note = NoNote) THEN b
       ELSE IF rightType = NoType THEN Raise(b, "noteWithoutInferableType")
       ELSE setNoteFor(b, right, rightType, fact.note)

\* InwardRule.results' updateFnode(leftFnode): merge one fact.
updateFnode(b, id, r, left) ==
    IF left \in r.rhs.throwsOn THEN Raise(b, "callbackError")
    ELSE LET fact == factOf(r.rhs)
         IN IF r.lhs.kind = "dom" /\ fact.type = NoType
            THEN Raise(b, "domRuleMustAssignType")
            ELSE LET right == IF fact.element # NoElement THEN fact.element ELSE left
                     b1 == fnodeForElement(b, right)
                     b2 == conserveStep(b1, id, r.lhs, fact, left, right)
                     b3 == scoreStep(b2, id, r.lhs, fact, left, right)
                 IN noteStep(b3, r.lhs, fact, right)

\* The element the fact of rule r about left is merged into.
rightOf(r, left) == IF r.rhs.element # NoElement THEN r.rhs.element ELSE left

\* forEach(updateFnode, leftFnodes): x = [b, returnedFnodes]; the first
\* error ends the loop.
RECURSIVE mergeFacts(_, _, _, _)
mergeFacts(x, id, r, leftFnodes) ==
    IF leftFnodes = <<>> \/ x.b.err # NoError THEN x
    ELSE LET left == Head(leftFnodes)
         IN mergeFacts(
                IF lhsYields(x.b, r.lhs, left)
                THEN [b |-> updateFnode(x.b, id, r, left),
                      returnedFnodes |-> SetAdd(x.returnedFnodes, rightOf(r, left))]
                ELSE x,
                id, r, Tail(leftFnodes))

\* The loop that puts each returned fnode in typeCache under all its types.
RECURSIVE cacheTypes(_, _)
cacheTypes(b, returnedFnodes) ==
    IF returnedFnodes = <<>> THEN b
    ELSE cacheTypes(
            [b EXCEPT !.typeCache =
                [t \in Types |-> IF t \in typesSoFar(b, Head(returnedFnodes))
                                 THEN SetAdd(@[t], Head(returnedFnodes))
                                 ELSE @[t]]],
            Tail(returnedFnodes))

\* InwardRule.results: y = [b, fnodes].
\* InwardRule.results without doneRules.add(this), which C7 rules out.
markDoneForgotten(merged, id) ==
    IF merged.b.err # NoError THEN [b |-> merged.b, fnodes |-> <<>>]
    ELSE [b |-> cacheTypes(merged.b, merged.returnedFnodes),
          fnodes |-> merged.returnedFnodes]

\* The end of InwardRule.results: mark the rule done and fill typeCache,
\* unless an error ended the merging.
markDone(merged, id) ==
    IF merged.b.err # NoError THEN [b |-> merged.b, fnodes |-> <<>>]
    ELSE [b |-> cacheTypes([merged.b EXCEPT !.doneRules = @ \cup {id}],
                           merged.returnedFnodes),
          fnodes |-> merged.returnedFnodes]

mergeLeft(left, id, r) ==
    mergeFacts([b |-> left.b, returnedFnodes |-> <<>>], id, r, left.fnodes)

inwardResults(b, id, r) ==
    IF id \in b.doneRules THEN [b |-> Raise(b, "doubleExecution"), fnodes |-> <<>>]
    ELSE markDone(mergeLeft(lhsFnodes([b EXCEPT !.invoked[id] = @ + 1], r.lhs),
                            id, r),
                  id)

\* OutwardRule.results: the fnodes of the LHS, through the identity callbacks.
yielded(left, lhs) ==
    [b |-> left.b,
     fnodes |-> FilterIn(left.fnodes,
                         {e \in Range(left.fnodes) : lhsYields(left.b, lhs, e)})]

outwardResults(b, r) == yielded(lhsFnodes(b, r.lhs), r.lhs)

results(rs, b, outRule, id) ==
    IF id = OutId THEN outwardResults(b, outRule)
    ELSE inwardResults(b, id, rs.inRules[id])

\* The loop of BoundRuleset._execute over the rules still to run:
\* z = [b, fnodes, executed]; executed lists the rules whose results() ran.
ran(y, executed, id) ==
    [b |-> y.b, fnodes |-> y.fnodes, executed |-> Append(executed, id)]

RECURSIVE runRules(_, _, _, _)
runRules(rs, outRule, rules, z) ==
    IF rules = <<>> \/ z.b.err # NoError THEN z
    ELSE runRules(rs, outRule, Tail(rules),
                  ran(results(rs, z.b, outRule, Head(rules)), z.executed, Head(rules)))

\* BoundRuleset._execute(rule)
returned(z, sorted) ==
    [b |-> z.b,
     fnodes |-> IF z.b.err = NoError THEN z.fnodes ELSE <<>>,
     executed |-> z.executed,
     sorted |-> sorted]

\* _execute without reversed(): the sorted rules run first to last, which
\* C10 rules out.
executeSortedForward(rs, b, outRule, planned) ==
    IF planned.cycle
    THEN [b |-> Raise(b, "cycle"), fnodes |-> <<>>, executed |-> <<>>,
          sorted |-> <<>>]
    ELSE returned(runRules(rs, outRule, planned.sorted,
                           [b |-> b, fnodes |-> <<>>, executed |-> <<>>]),
                  planned.sorted)

\* The second half of BoundRuleset._execute: run the sorted rules, last first.
executeSorted(rs, b, outRule, planned) ==
    IF planned.cycle
    THEN [b |-> Raise(b, "cycle"), fnodes |-> <<>>, executed |-> <<>>,
          sorted |-> <<>>]
    ELSE returned(runRules(rs, outRule, Reversed(planned.sorted),
                           [b |-> b, fnodes |-> <<>>, executed |-> <<>>]),
                  planned.sorted)

execute(rs, b, outRule) ==
    executeSorted(rs, b, outRule, plan(rs, outRule, b.doneRules))

\* ---------------------------------------------------------------- get
\* What get() is called with: the key of an out rule, an LHS, a DOM element,
\* or something that is none of these.
KeyThing(k) == [how |-> "key", key |-> k, lhs |-> Dom({}), element |-> NoElement]
LhsThing(l) == [how |-> "lhs", key |-> NoKey, lhs |-> l, element |-> NoElement]
ElementThing(e) == [how |-> "element", key |-> NoKey, lhs |-> Dom({}), element |-> e]
BadThing == [how |-> "bad", key |-> NoKey, lhs |-> Dom({}), element |-> NoElement]
\* undefined or null: reading thing.asLhs raises a TypeError.
UndefinedThing ==
    [how |-> "undefined", key |-> NoKey, lhs |-> Dom({}), element |-> NoElement]

outRuleFor(rs, key) == CHOOSE o \in Range(rs.outRules) : o.rhs.key = key

notExecuted(b, error) ==
    [b |-> Raise(b, error), fnodes |-> <<>>, executed |-> <<>>, sorted |-> <<>>]

\* BoundRuleset.get(thing)
get(rs, b, thing) ==
    CASE thing.how = "key" /\ ~\E o \in Range(rs.outRules) : o.rhs.key = thing.key ->
            notExecuted(b, "missingOutKey")
      [] thing.how = "element" ->
            [b |-> fnodeForElement(b, thing.element), fnodes |-> <<thing.element>>,
             executed |-> <<>>, sorted |-> <<>>]
      [] thing.how \in {"key", "lhs"} ->
            execute(rs, b, IF thing.how = "key" THEN outRuleFor(rs, thing.key)
                           ELSE rule(thing.lhs, OutRhs("outKey")))
      [] thing.how = "undefined" -> notExecuted(b, "typeError")
      [] OTHER -> notExecuted(b, "badGetArgument")

\* The Ruleset after get(thing) on a bound ruleset with these done rules.
sharedAfterGet(rs, doneRules, thing) ==
    IF \/ thing.how = "lhs"
       \/ thing.how = "key" /\ \E o \in Range(rs.outRules) : o.rhs.key = thing.key
    THEN afterPlanning(rs, IF thing.how = "key" THEN outRuleFor(rs, thing.key)
                           ELSE rule(thing.lhs, OutRhs("outKey")),
                       doneRules)
    ELSE rs

\* ------------------------------------------------------ the rules tried
\* dom('#e1') -> type('A').score(2)
D1 == rule(Dom({1}), TypeRhs("A", 2, NoNote))
\* dom('*') -> type('A').score(3).note('n')
D2 == rule(Dom(Elements), TypeRhs("A", 3, "n"))
\* type('A') -> score(3)
AA == rule(OfType("A"), ScoreRhs(3, NoNote, {}))
\* type('A') -> type('B').conserveScore()
AB == rule(OfType("A"), InRhs("B", NoScore, NoNote, TRUE, NoElement, {}, {"B"}, TRUE))
\* type('B') -> type('A').score(5)
BA == rule(OfType("B"), TypeRhs("A", 5, NoNote))
\* type('A') -> props(() => ({element: e2, type: 'A', score: 5})).typeIn('A')
RD == rule(OfType("A"), InRhs("A", 5, NoNote, FALSE, 2, {}, {"A"}, TRUE))
\* type('A') -> score(2).note('m')
AN == rule(OfType("A"), ScoreRhs(2, "m", {}))
\* type('A') -> score(f), where f raises an error on the fnode of e2
CB == rule(OfType("A"), ScoreRhs(7, NoNote, {2}))

\* type('B').max() -> score(2)
MB == rule(Max("B"), ScoreRhs(2, NoNote, {}))

InPool == {D1, D2, AA, AB, BA, RD, AN, CB, MB}

\* rule(type('A').max(), out('best')), rule(type('B').max(), out('bs'))
OutRules == <<rule(Max("A"), OutRhs("best")), rule(Max("B"), OutRhs("bs"))>>

\* The lists of distinct inward rules of at most MaxRules rules.
RuleLists ==
    UNION {{s \in [1..n -> InPool] : \A i, j \in 1..n : s[i] = s[j] => i = j} :
             n \in 1..MaxRules}

\* ----------------------------------- more rules, tried two at a time
\* dom('*') -> props(f).typeIn('A'), where f gives a score and no type
DP == rule(Dom(Elements), InRhs(NoType, 2, NoNote, FALSE, NoElement, {}, {"A"}, TRUE))
\* dom('*') -> score(2)
DS == rule(Dom(Elements), ScoreRhs(2, NoNote, {}))
\* type('A') -> props(f), without typeIn, where f gives type B
AP == rule(OfType("A"), InRhs("B", NoScore, NoNote, FALSE, NoElement, {}, {}, TRUE))
\* type('A') -> props(f).typeIn('A', 'B'), where f gives type B and score 2
AT == rule(OfType("A"), InRhs("B", 2, NoNote, FALSE, NoElement, {}, {"A", "B"}, TRUE))
\* type('A').max() -> type('B').score(2)
MAB == rule(Max("A"), TypeRhs("B", 2, NoNote))
\* and(type('A')) -> type('B').score(2)
NB == rule(And(<<OfType("A")>>), TypeRhs("B", 2, NoNote))
\* and(type('A'), type('B')) -> type('A').score(2)
NA == rule(And(<<OfType("A"), OfType("B")>>), TypeRhs("A", 2, NoNote))
\* and(type('A'), type('B')) -> score(2)
NS == rule(And(<<OfType("A"), OfType("B")>>), ScoreRhs(2, NoNote, {}))

\* rule(type('A'), out('bs')): the key of the second of OutRules
OB == rule(OfType("A"), OutRhs("bs"))

WidePool == {D1, D2, AA, AB, RD, MB, DP, DS, AP, AT, MAB, NB, NA, NS, OB, NotARule}

MaxWide == 2

\* The lists of at most MaxWide distinct arguments of WidePool.
WideLists ==
    UNION {{s \in [1..n -> WidePool] : \A i, j \in 1..n : s[i] = s[j] => i = j} :
             n \in 1..MaxWide}

\* A splittingDistance that separates the elements of the document.
CloseBy == SplittingDistance - 2

\* The arguments get() is tried with.
Things ==
    {KeyThing("best"), KeyThing("bs"), KeyThing("nokey"),
     LhsThing(OfType("A")), LhsThing(Max("A")), LhsThing(When(Max("A"), {2}).lhs),
     LhsThing(Dom(Elements)), LhsThing(BestCluster("A", NoOptions)),
     LhsThing(BestCluster("A", CloseBy)), BadThing, UndefinedThing}
    \cup {ElementThing(e) : e \in Elements}

\* ------------------------------------------------------------- the state
VARIABLES
    ruleset,    \* the Ruleset built by ruleset(...rules)
    bound,      \* whether against(doc) has made the BoundRuleset
    b,          \* the BoundRuleset
    last,       \* the last call and what it returned or raised
    history,    \* the get() calls made on b so far, each with how it ended
    other,      \* a second BoundRuleset made of the same Ruleset
    util        \* the last call of a function that needs no ruleset

vars == <<ruleset, bound, b, last, history, other, util>>

\* No such call yet.
NoUtil == [op |-> "none"]

\* No second bound ruleset yet.  shares tells whether its caches are those
\* of b, and gets counts the calls of get() on it.
NoOther(rs) == [made |-> FALSE, shares |-> FALSE, b |-> BoundRuleset(rs), gets |-> 0]

NoCall ==
    [op |-> "none", thing |-> BadThing, status |-> NoError, fnodes |-> <<>>,
     snapshot |-> <<>>, executed |-> <<>>, sorted |-> <<>>, doneBefore |-> {}]

Init ==
    /\ \E rules \in RuleLists : ruleset = Ruleset(rules \o OutRules)
    /\ bound = FALSE
    /\ b = BoundRuleset(ruleset)
    /\ last = NoCall
    /\ history = <<>>
    /\ other = NoOther(ruleset)
    /\ util = NoUtil

\* The same, with rulesets of fewer rules of more kinds, and arguments that
\* the constructor refuses.
InitWide ==
    /\ \E rules \in WideLists : ruleset = Ruleset(rules \o OutRules)
    /\ bound = FALSE
    /\ b = BoundRuleset(ruleset)
    /\ last = NoCall
    /\ history = <<>>
    /\ other = NoOther(ruleset)
    /\ util = NoUtil

\* Ruleset.against(doc)
Against ==
    /\ ruleset.ok
    /\ bound' = TRUE
    /\ b' = BoundRuleset(ruleset)
    /\ last' = [NoCall EXCEPT !.op = "against"]
    /\ history' = <<>>
    /\ UNCHANGED <<ruleset, other, util>>

\* What a get leaves: the bound ruleset, and the call with its outcome.
outcome(thing, doneBefore, g) ==
    [b |-> [g.b EXCEPT !.err = NoError],
     last |-> [op |-> "get", thing |-> thing, status |-> g.b.err,
               fnodes |-> g.fnodes,
               snapshot |-> [i \in 1..Len(g.fnodes) |-> g.b.fn[g.fnodes[i]]],
               executed |-> g.executed, sorted |-> g.sorted,
               doneBefore |-> doneBefore]]

\* One call of BoundRuleset.get(thing), to its return or its error.
Get ==
    /\ bound
    /\ Len(history) < MaxGets
    /\ \E thing \in Things :
          \E o \in {outcome(thing, b.doneRules, get(ruleset, b, thing))} :
              /\ b' = o.b
              /\ last' = o.last
              /\ history' = Append(history, [thing |-> thing,
                                             status |-> o.last.status])
              /\ ruleset' = sharedAfterGet(ruleset, b.doneRules, thing)
    /\ UNCHANGED <<bound, other, util>>

\* A BoundRuleset whose caches are those of an earlier one.
againstAgainShared(rs, first) ==
    [made |-> TRUE, shares |-> TRUE, b |-> first, gets |-> 0]

\* Ruleset.against(doc) once more: new BoundRuleset(...), whose constructor
\* makes caches of its own.
againstAgain(rs, first) ==
    [made |-> TRUE, shares |-> FALSE, b |-> BoundRuleset(rs), gets |-> 0]

AgainstOther ==
    /\ ruleset.ok
    /\ bound
    /\ other' = againstAgain(ruleset, b)
    /\ UNCHANGED <<ruleset, bound, b, last, history, util>>

\* The caches of the second bound ruleset.
otherCaches == IF other.shares THEN b ELSE other.b

\* The arguments get() is tried with on the second bound ruleset.
OtherThings ==
    {KeyThing("best"), KeyThing("bs"), LhsThing(OfType("A")), ElementThing(1)}

\* One call of get(thing) on the second bound ruleset.
GetOther ==
    /\ other.made
    /\ Len(history) + other.gets < MaxGets
    /\ \E thing \in OtherThings :
          \E o \in {outcome(thing, otherCaches.doneRules,
                            get(ruleset, otherCaches, thing))} :
              /\ other' = [other EXCEPT !.b = o.b, !.gets = @ + 1]
              /\ b' = IF other.shares THEN o.b ELSE b
              /\ ruleset' = sharedAfterGet(ruleset, otherCaches.doneRules, thing)
    /\ UNCHANGED <<bound, last, history, util>>

Next == Against \/ Get

NextTwo == Against \/ Get \/ AgainstOther \/ GetOther

Spec == Init /\ [][Next]_vars

SpecWide == InitWide /\ [][Next]_vars

\* Two bound rulesets of one ruleset.
SpecTwo == InitWide /\ [][NextTwo]_vars

\* dom('*') -> type('A').score(2).conserveScore()
DC == rule(Dom(Elements), InRhs("A", 2, NoNote, TRUE, NoElement, {}, {"A"}, TRUE))
\* and(type('A')) -> type('B').score(2).conserveScore()
NC == rule(And(<<OfType("A")>>), InRhs("B", 2, NoNote, TRUE, NoElement, {}, {"B"}, TRUE))
\* type('A') -> type('B').score(2).conserveScore()
AC == rule(OfType("A"), InRhs("B", 2, NoNote, TRUE, NoElement, {}, {"B"}, TRUE))

\* Rules whose RHS conserves the score, and rules that feed them.
ConservePool == {D1, D2, AA, AB, AC, DC, NC}

ConserveLists ==
    UNION {{q \in [1..n -> ConservePool] : \A i, j \in 1..n : q[i] = q[j] => i = j} :
             n \in 1..MaxRules}

InitConserve ==
    /\ \E rules \in ConserveLists : ruleset = Ruleset(rules \o OutRules)
    /\ bound = FALSE
    /\ b = BoundRuleset(ruleset)
    /\ last = NoCall
    /\ history = <<>>
    /\ other = NoOther(ruleset)
    /\ util = NoUtil

\* Bound rulesets of rules that conserve the score.
SpecConserve == InitConserve /\ [][Next]_vars

\* The and() LHSs get() is tried with: the same arguments in both orders,
\* without and with a when() predicate on one of them.
AndThings ==
    {LhsThing(And(<<OfType("A")>>)),
     LhsThing(And(<<OfType("A"), OfType("B")>>)),
     LhsThing(And(<<OfType("B"), OfType("A")>>)),
     LhsThing(And(<<When(OfType("A"), {1}).lhs, OfType("B")>>)),
     LhsThing(And(<<OfType("B"), When(OfType("A"), {1}).lhs>>))}

\* One call of BoundRuleset.get(and(...)), to its return or its error.
GetAnd ==
    /\ bound
    /\ Len(history) < MaxGets
    /\ \E thing \in AndThings :
          \E o \in {outcome(thing, b.doneRules, get(ruleset, b, thing))} :
              /\ b' = o.b
              /\ last' = o.last
              /\ history' = Append(history, [thing |-> thing,
                                             status |-> o.last.status])
              /\ ruleset' = sharedAfterGet(ruleset, b.doneRules, thing)
    /\ UNCHANGED <<bound, other, util>>

NextAnd == Against \/ GetAnd

\* Bound rulesets asked for and() LHSs.
SpecAnd == Init /\ [][NextAnd]_vars

\* ------------------------------------- functions that need no ruleset
MaxArgs == 2

\* The LHSs and() is tried with.
AndArgs ==
    {OfType("A"), OfType("B"), When(OfType("A"), {1}).lhs, Max("A"),
     BestCluster("A", NoOptions), Dom(Elements), And(<<OfType("A")>>)}

AndArgLists == UNION {[1..n -> AndArgs] : n \in 0..MaxArgs}

\* and(...lhss)
CallAnd ==
    /\ util = NoUtil
    /\ \E lhss \in AndArgLists :
          util' = [op |-> "and", args |-> lhss, result |-> newAnd(lhss)]
    /\ UNCHANGED <<ruleset, bound, b, last, history, other>>

MaxItems == 4
MaxDistance == 3

\* The lists of distinct items clusters() is tried with.
ItemLists ==
    UNION {{s \in [1..n -> 1..MaxItems] : \A i, j \in 1..n : s[i] = s[j] => i = j} :
             n \in 0..MaxItems}

\* The distance functions it is tried with: symmetric, 0 from an item to
\* itself, given by the distances of the pairs x < y.
symmetric(u) ==
    [p \in (1..MaxItems) \X (1..MaxItems) |->
        IF p[1] = p[2] THEN 0
        ELSE IF p[1] < p[2] THEN u[p] ELSE u[<<p[2], p[1]>>]]

Distances ==
    {symmetric(u) :
        u \in [{p \in (1..MaxItems) \X (1..MaxItems) : p[1] < p[2]} -> 1..MaxDistance]}

\* The splitting distances it is tried with.
Deltas == 1..(MaxDistance - 1)

\* clusters(items, splittingDistance, getDistance)
CallClusters ==
    /\ util = NoUtil
    /\ \E items \in ItemLists, delta \in Deltas, d \in Distances :
          util' = [op |-> "clusters",
                   args |-> [items |-> items, splittingDistance |-> delta, d |-> d],
                   result |-> clusters(items, delta, d)]
    /\ UNCHANGED <<ruleset, bound, b, last, history, other>>

MaxNodes == 5

\* The trees of MaxNodes elements numbered in document order: the parent of
\* an element is the element before it or one of that element's ancestors.
Trees ==
    {p \in [1..MaxNodes -> 0..(MaxNodes - 1)] :
        /\ p[1] = NoNode
        /\ \A n \in 2..MaxNodes : p[n] \in 1..(n - 1)
        /\ \A n \in 3..MaxNodes : p[n] \in Range(pathToRoot([parent |-> p], n - 1))}

TagNames == {"div", "a"}

\* The documents distance() is tried on: a body and what is in it.
Docs ==
    {[parent |-> p, tag |-> [n \in 1..MaxNodes |-> IF n = 1 THEN "body" ELSE t[n]]] :
        p \in Trees, t \in [2..MaxNodes -> TagNames]}

\* What the caller's additionalCost(a, b) returns: nothing, the 7 of the
\* test, a cost that is the same both ways and one that is not.
AdditionalCosts ==
    {[p \in (1..MaxNodes) \X (1..MaxNodes) |-> 0],
     [p \in (1..MaxNodes) \X (1..MaxNodes) |-> 7],
     [p \in (1..MaxNodes) \X (1..MaxNodes) |->
        IF p[1] < p[2] THEN p[2] - p[1] ELSE p[1] - p[2]],
     [p \in (1..MaxNodes) \X (1..MaxNodes) |->
        IF p[1] < p[2] THEN p[2] - p[1] ELSE 0]}

\* The cost options distance() is tried with: the default costs, no stride
\* cost, and other costs.
CostOptions ==
    {[differentDepthCost |-> o[1], differentTagCost |-> o[2], sameTagCost |-> o[3],
      strideCost |-> o[4], additionalCost |-> f] :
        o \in {<<2, 2, 1, 1>>, <<2, 2, 1, 0>>, <<3, 1, 0, 2>>}, f \in AdditionalCosts}

\* distance(a, c, costs) on the elements of a document
CallDistance ==
    /\ util = NoUtil
    /\ \E doc \in Docs, costs \in CostOptions, a, c \in 1..MaxNodes :
          util' = [op |-> "distance",
                   args |-> [doc |-> doc, costs |-> costs, a |-> a, c |-> c],
                   result |-> distance(doc, costs, a, c)]
    /\ UNCHANGED <<ruleset, bound, b, last, history, other>>

InitUtil ==
    /\ ruleset = Ruleset(OutRules)
    /\ bound = FALSE
    /\ b = BoundRuleset(ruleset)
    /\ last = NoCall
    /\ history = <<>>
    /\ other = NoOther(ruleset)
    /\ util = NoUtil

NextUtil == CallAnd \/ CallClusters \/ CallDistance

SpecUtil == InitUtil /\ [][NextUtil]_vars

\* ------------------------------------------------------- Annealer.anneal
\* The fields a subclass sets in its constructor, small here.
COOLING_STEPS == 2
STEPS_PER_TEMP == 2

\* The solutions of the subclass and what solutionCost returns for them.
MaxSolutions == 3
MaxCost == 2
Solutions == 1..MaxSolutions
NoSolution == 0
CostFunctions == [Solutions -> 0..MaxCost]

\* The unit of the costs: "fine" costs are multiples of BOLTZMANNS *
\* INITIAL_TEMPERATURE, "coarse" costs are whole numbers.
Scales == {"fine", "coarse"}

\* Math.exp(minusDelta / (this.BOLTZMANNS * temperature)) for minusDelta <= 0:
\* 1 for equal costs; for a higher cost, a number between 0 and 1 when the
\* costs are fine, as long as the temperature has been cooled a few times
\* only, and 0, by underflow, when they are coarse.
meritOf(minusDelta, scale) ==
    IF minusDelta = 0 THEN "one"
    ELSE IF scale = "fine" THEN "between" ELSE "zero"

\* merit > Math.random(): Math.random() is below 1, not below 0, and below
\* or not below a merit in between.
meritAboveRandom(merit, randomBelow) ==
    \/ merit = "one"
    \/ merit = "between" /\ randomBelow

\* A neighbour taken by its merit alone.
jumpsByMerit(a, newCost, randomBelow) ==
    meritAboveRandom(meritOf(a.currentCost - newCost, a.scale), randomBelow)

\* Whether the inner loop takes the neighbour for the current solution.
jumps(a, newCost, randomBelow) ==
    \/ newCost < a.currentCost
    \/ meritAboveRandom(meritOf(a.currentCost - newCost, a.scale), randomBelow)

\* anneal() of a subclass up to its outer loop: the initial solution and its
\* cost.  steps lists the inner iterations of the cooling steps ended.
started(cost, scale, initial) ==
    [op |-> "anneal", pc |-> "cooling", err |-> NoError, cost |-> cost,
     scale |-> scale, cooled |-> 0, i |-> 0, j |-> 0,
     currentSolution |-> initial, currentCost |-> cost[initial],
     startCost |-> cost[initial], m |-> 0, n |-> 0,
     seen |-> {cost[initial]}, calls |-> 1, steps |-> <<>>,
     drawn |-> NoSolution, result |-> NoSolution]

\* anneal() of Annealer itself: initialSolution() throws.
notOverridden(cost, scale) ==
    [started(cost, scale, 1) EXCEPT
        !.pc = "failed", !.err = "mustBeOverridden", !.calls = 0, !.seen = {}]

AnnealStart ==
    /\ util = NoUtil
    /\ \E cost \in CostFunctions, scale \in Scales, initial \in Solutions,
          overridden \in BOOLEAN :
          util' = IF overridden THEN started(cost, scale, initial)
                  ELSE notOverridden(cost, scale)
    /\ UNCHANGED <<ruleset, bound, b, last, history, other>>

\* The head of a cooling step: const startCost = currentCost.
Cool ==
    /\ util.op = "anneal"
    /\ util.pc = "cooling"
    /\ util.i < COOLING_STEPS
    /\ util' = [util EXCEPT !.pc = "steps", !.startCost = util.currentCost, !.j = 0]
    /\ UNCHANGED <<ruleset, bound, b, last, history, other>>

\* The state after one inner iteration that drew newSolution.
stepped(a, newSolution, randomBelow) ==
    [a EXCEPT
        !.currentSolution = IF jumps(a, a.cost[newSolution], randomBelow)
                            THEN newSolution ELSE @,
        !.currentCost = IF jumps(a, a.cost[newSolution], randomBelow)
                        THEN a.cost[newSolution] ELSE @,
        !.m = IF a.cost[newSolution] >= a.currentCost
                 /\ jumps(a, a.cost[newSolution], randomBelow)
              THEN @ + 1 ELSE @,
        !.n = @ + 1,
        !.j = @ + 1,
        !.seen = @ \cup {a.cost[newSolution]},
        !.calls = @ + 1,
        !.drawn = newSolution]

\* An inner loop that only the break ends.
loopEndedByBreak(a) ==
    [a EXCEPT !.pc = IF a.startCost = a.currentCost THEN "cooled" ELSE "steps"]

\* An inner loop that only j < STEPS_PER_TEMP failing ends.
loopEndedByCount(a) ==
    [a EXCEPT !.pc = IF a.j >= STEPS_PER_TEMP THEN "cooled" ELSE "steps"]

\* if (startCost === currentCost) { break; }, or j < STEPS_PER_TEMP failing
loopEnded(a) ==
    [a EXCEPT !.pc = IF a.startCost = a.currentCost \/ a.j >= STEPS_PER_TEMP
                     THEN "cooled" ELSE "steps"]

\* One inner iteration: a neighbour, its cost, and whether it is taken.
Step ==
    /\ util.op = "anneal"
    /\ util.pc = "steps"
    /\ \E newSolution \in Solutions, randomBelow \in BOOLEAN :
          util' = loopEnded(stepped(util, newSolution, randomBelow))
    /\ UNCHANGED <<ruleset, bound, b, last, history, other>>

\* The end of a cooling step: temperature *= this.COOLING_FRACTION; i++.
EndCooling ==
    /\ util.op = "anneal"
    /\ util.pc = "cooled"
    /\ util' = [util EXCEPT !.pc = "cooling", !.cooled = @ + 1, !.i = @ + 1,
                             !.steps = Append(@, util.j)]
    /\ UNCHANGED <<ruleset, bound, b, last, history, other>>

\* return currentSolution
Return ==
    /\ util.op = "anneal"
    /\ util.pc = "cooling"
    /\ util.i >= COOLING_STEPS
    /\ util' = [util EXCEPT !.pc = "returned", !.result = util.currentSolution]
    /\ UNCHANGED <<ruleset, bound, b, last, history, other>>

NextAnneal == AnnealStart \/ Cool \/ Step \/ EndCooling \/ Return

\* One run of anneal() of a subclass of Annealer.
SpecAnneal == InitUtil /\ [][NextAnneal]_vars

\* The same run, which goes on as long as a statement is left to execute.
SpecAnnealFair == SpecAnneal /\ WF_vars(NextAnneal)

TypeOK ==
    /\ bound \in BOOLEAN
    /\ Len(history) \in 0..MaxGets
    /\ b.doneRules \subseteq 1..Len(ruleset.inRules)
    /\ b.err = NoError

\* ------------------------------------------ what the last get was about
\* The outward rule a get of thing runs.
requested(thing) ==
    IF thing.how = "key" THEN outRuleFor(ruleset, thing.key)
    ELSE rule(thing.lhs, OutRhs("outKey"))

\* The outward rule the last get ran.
lastOutRule == requested(last.thing)

\* The call was a get that ran the planner.
PlannedCall(call) ==
    /\ call.op = "get"
    /\ \/ call.thing.how = "lhs"
       \/ call.thing.how = "key" /\ call.status # "missingOutKey"

Planned == PlannedCall(last)

\* What the caller can see of the bound ruleset.
Facts(x) == [doneRules |-> x.doneRules, typeCache |-> x.typeCache,
             maxCache |-> x.maxCache, fn |-> x.fn]

\* ------------------------------------------- prerequisites, declared
\* The rules that the rule with identity id names as its prerequisites.
needs(outRule, id) == Range(prerequisites(ruleset, ruleOf(ruleset, outRule, id)))

\* The least set that holds S and the prerequisites of its members.
RECURSIVE reach(_, _)
reach(outRule, S) ==
    LET T == S \cup UNION {needs(outRule, i) : i \in S}
    IN IF T = S THEN S ELSE reach(outRule, T)

\* The transitive prerequisites of a rule.
upstream(outRule, id) == reach(outRule, needs(outRule, id))

\* Some transitive prerequisite of the rule a get of thing runs is its own
\* transitive prerequisite.
reachesCycle(thing) ==
    \E id \in upstream(requested(thing), OutId) :
        id \in upstream(requested(thing), id)

\* Some rule of the ruleset is on a prerequisite cycle.
hasCycle ==
    \E id \in 1..Len(ruleset.inRules) : id \in upstream(OutRules[1], id)

\* Neither rule is a transitive prerequisite of the other.
independent(outRule, i, j) ==
    /\ i # j
    /\ i \notin upstream(outRule, j)
    /\ j \notin upstream(outRule, i)

\* The step is a call of get.
IsGet == last'.op = "get" /\ history' # history

\* The positions of the inward rules the last get ran.
inwardRun == {i \in 1..Len(last.executed) : last.executed[i] # OutId}

\* --------------------------------------------------------------- claims

\* C1: across any sequence of get calls on one bound ruleset, results() of
\* each inward rule is entered at most once, no rule that is already in
\* doneRules is put in a later plan, and doubleExecution is never raised.
C1_ExecutedAtMostOnce ==
    /\ \A i \in 1..Len(ruleset.inRules) : b.invoked[i] <= 1
    /\ Range(last.sorted) \cap last.doneBefore = {}
    /\ last.status # "doubleExecution"

\* The score factors merged into the fnode of e for type t, in order.
factorsOf(e, t) ==
    LET hits == {i \in 1..Len(b.multiplied) :
                    b.multiplied[i].target = e /\ b.multiplied[i].type = t}
        at == Ascending(hits)
    IN [k \in 1..Len(at) |-> b.multiplied[at[k]].factor]

\* The types and scores of every fnode of a bound ruleset.
scores(x) ==
    [e \in Elements |->
        [t \in Types |-> [has |-> x.fn[e][t].has, score |-> x.fn[e][t].score]]]

\* The rulesets that hold the same rules in another order of insertion.
reordered ==
    LET n == Len(ruleset.inRules)
    IN {Ruleset([i \in 1..n |-> ruleset.inRules[p[i]]] \o OutRules) :
          p \in {q \in [1..n -> 1..n] : \A i, j \in 1..n : q[i] = q[j] => i = j}}

\* Every score is the product of the factors merged into it.
scoresAreProducts ==
    \A e \in Elements : \A t \in Types :
        scoreSoFarFor(b, e, t) = Product(factorsOf(e, t))

\* C2: after a successful get on a fresh bound ruleset, the score of every
\* fnode for every type is 1 times the factors the executed rules merged into
\* it, and it is the score the same get leaves when the same rules are
\* inserted, and so executed, in any other order.
C2_ScoreIsOrderIndependentProduct ==
    (Planned /\ Len(history) = 1 /\ last.status = NoError) =>
        /\ scoresAreProducts
        /\ \A rs \in reordered :
              \A g \in {get(rs, BoundRuleset(rs), last.thing)} :
                  g.b.err = NoError => scores(g.b) = scores(b)

\* C3: within one get, every rule is run only after each of its
\* prerequisites was done before the get or has run earlier in it, and the
\* requested rule runs last.
C3_PrerequisitesFirst ==
    Planned =>
        /\ \A i \in 1..Len(last.executed) :
              /\ \A p \in needs(lastOutRule, last.executed[i]) :
                    \/ p \in last.doneBefore
                    \/ \E j \in 1..(i - 1) : last.executed[j] = p
              /\ last.executed[i] = OutId => i = Len(last.executed)
        /\ last.status = NoError =>
              /\ last.executed # <<>>
              /\ last.executed[Len(last.executed)] = OutId

\* A successful get that ran a rule, a prerequisite of it before it, and the
\* requested rule.
C3_Witness ==
    /\ Planned
    /\ last.status = NoError
    /\ \E i, j \in inwardRun :
          /\ i < j
          /\ last.executed[i] \in needs(lastOutRule, last.executed[j])

\* What a get that meets a cycle must leave alone.
C4_Step ==
    (IsGet /\ PlannedCall(last') /\ reachesCycle(last'.thing)) =>
        /\ last'.status = "cycle"
        /\ last'.executed = <<>>
        /\ Facts(b') = Facts(b)
        /\ b'.invoked = b.invoked
        /\ b'.multiplied = b.multiplied

\* C4: a get whose requested rule has a cycle among its transitive
\* prerequisites fails with the cycle error, enters results() of no rule, and
\* leaves doneRules, typeCache, maxCache and every fnode as they were.
C4_CycleFailsBeforeAnyRule == [][C4_Step]_vars

\* A get failed with cycle on a bound ruleset that an earlier get had
\* already filled with facts.
C4_Witness ==
    /\ last.op = "get"
    /\ last.status = "cycle"
    /\ b.doneRules # {}

\* C5: a ruleset with a prerequisite cycle is built and bound without error,
\* and a get on it fails with cycle exactly when the transitive prerequisites
\* of the requested rule include a rule of a cycle.
C5_OnlyGetsReachingCycleFail ==
    /\ hasCycle => ruleset.ok
    /\ Planned => (last.status = "cycle" <=> reachesCycle(last.thing))

\* On one bound ruleset with a cycle, one get failed with cycle and a later
\* get, which avoids the cycle, ran an inward rule and succeeded.
C5_Witness ==
    /\ bound
    /\ hasCycle
    /\ \E i \in 1..Len(history) : history[i].status = "cycle"
    /\ Planned
    /\ last.status = NoError
    /\ inwardRun # {}

\* get(q) right after get(q), q a key or an LHS.
C6_Step ==
    (IsGet /\ last.op = "get" /\ last'.thing = last.thing
           /\ last.thing.how \in {"key", "lhs"}) =>
        /\ last'.status = last.status
        /\ last'.fnodes = last.fnodes
        /\ last'.snapshot = last.snapshot

\* C6: get(q) called twice in succession, q an out-rule key or an LHS, ends
\* the same way both times and returns the same fnodes with the same types,
\* scores and notes.
C6_GetTwiceEqual == [][C6_Step]_vars

\* The same query answered twice in succession with a fnode.
C6_Witness ==
    /\ Len(history) = 2
    /\ history[1].thing = history[2].thing
    /\ history[1].status = NoError
    /\ Planned
    /\ last.fnodes # <<>>
    /\ b.doneRules # {}

\* The step repeats a get that succeeded earlier.
Repeats ==
    /\ IsGet
    /\ \E i \in 1..Len(history) :
          history[i].thing = last'.thing /\ history[i].status = NoError

C7_Step ==
    /\ Repeats =>
          /\ b'.doneRules = b.doneRules
          /\ b'.typeCache = b.typeCache
          /\ b'.fn = b.fn
          /\ b'.invoked = b.invoked
          /\ Range(last'.executed) \subseteq {OutId}
    /\ OutId \notin b'.doneRules

\* C7: a get(q) that repeats an earlier successful get(q) enters results()
\* of no inward rule and leaves doneRules, typeCache and every fnode as they
\* were; no get puts an outward rule in doneRules.
C7_RepeatedGetRunsNothing == [][C7_Step]_vars

\* A get that ran inward rules was repeated.
C7_Witness ==
    /\ Len(history) = 2
    /\ history[1].thing = history[2].thing
    /\ history[1].status = NoError
    /\ last.status = NoError
    /\ last.executed = <<OutId>>
    /\ b.doneRules # {}

\* C8: a get on a bound ruleset that has answered earlier gets ends as the
\* same get ends on a fresh bound ruleset of the same ruleset and document,
\* and returns the fnodes of the same elements in the same order.
C8_EarlierGetsChangeNoResult ==
    Planned =>
        \A g \in {get(ruleset, BoundRuleset(ruleset), last.thing)} :
            /\ last.status = g.b.err
            /\ last.fnodes = g.fnodes

\* C9: whatever gets failed, a rule that completed has been run once, and no
\* rule has applied the same multiplier of the same input fnode to the same
\* fnode and type twice.
C9_MultipliedOncePerRuleAndFnode ==
    /\ \A i \in b.doneRules : b.invoked[i] = 1
    /\ \A i, j \in 1..Len(b.multiplied) :
          (/\ b.multiplied[i].rule = b.multiplied[j].rule
           /\ b.multiplied[i].step = b.multiplied[j].step
           /\ b.multiplied[i].source = b.multiplied[j].source
           /\ b.multiplied[i].target = b.multiplied[j].target
           /\ b.multiplied[i].type = b.multiplied[j].type) => i = j

planIndependent ==
    \A x, y \in Range(last.sorted) \ {OutId} :
        x # y => independent(lastOutRule, x, y)

topScorers(x, t) ==
    {e \in Elements :
        /\ hasType(x, e, t)
        /\ \A o \in Elements :
              hasType(x, o, t) => scoreSoFarFor(x, e, t) >= scoreSoFarFor(x, o, t)}

\* C11: a successful get of type(t).max(), without a predicate, returns
\* exactly the fnodes of type t whose score for t is at least that of every
\* fnode of type t: all of the tied ones, and none when no fnode bears t.
C11_MaxReturnsTopScorers ==
    (/\ Planned
     /\ last.status = NoError
     /\ lastOutRule.lhs.kind = "max"
     /\ lastOutRule.lhs.pred = Elements) =>
        Range(last.fnodes) = topScorers(b, lastOutRule.lhs.type)

\* The LHSs that when() is tried on, and the predicates it is given.
LhsPool ==
    {Dom(Elements), Dom({1}), OfType("A"), Max("A"), BestCluster("A", 5),
     And(<<OfType("A"), OfType("B")>>)}

Predicates == SUBSET Elements

\* What an LHS matches on a bound ruleset: what an out rule with that LHS
\* returns.
matches(x, lhs) == outwardResults(x, rule(lhs, OutRhs("outKey"))).fnodes

\* The LHSs whose fnodes() is modelled.
Matchable == {"dom", "type", "max", "bestCluster", "and"}

\* C12: for every LHS L and predicate p, L.when(p) succeeds, is of the
\* variant of L with the parameters of L, and matches exactly the matches of
\* L that satisfy p.
C12_WhenIsPostFilterOnSameLhs ==
    bound =>
        \A L \in LhsPool : \A p \in Predicates :
            \A w \in {When(L, p)} :
                /\ w.err = NoError
                /\ w.lhs.kind = L.kind
                /\ w.lhs.sel = L.sel
                /\ w.lhs.type = L.type
                /\ w.lhs.args = L.args
                /\ w.lhs.options = L.options
                /\ L.kind \in Matchable =>
                      matches(b, w.lhs) = FilterIn(matches(b, L), p)

\* C13: an LHS built as L.when(p1).when(p2) matches only fnodes that satisfy
\* both p1 and p2.
C13_ChainedWhenAccumulates ==
    bound =>
        \A L \in LhsPool : \A p1, p2 \in Predicates :
            (hasClone(L) /\ L.kind \in Matchable) =>
                Range(matches(b, When(When(L, p1).lhs, p2).lhs)) \subseteq p1 \cap p2

\* ------------------------------------- claims about what rules declare
\* The rules of the ruleset, and the rules get(lhs) makes of the LHSs tried.
RulesOf(rs) ==
    Range(rs.inRules) \cup Range(rs.outRules)
        \cup {requested(t) : t \in {x \in Things : x.how = "lhs"}}

emitters(rs, t) == Range(inwardRulesThatCouldEmit(rs, t))
adders(rs, t) == Range(inwardRulesThatCouldAdd(rs, t))

finalizedBy(r) == Range(typesFinalized(r))
mentionedBy(r) == Range(typesMentioned(r.lhs))

\* The emitters of the types r finalizes and the adders of the types r
\* mentions and does not finalize.
emittersAndAdders(rs, r) ==
    UNION {emitters(rs, t) : t \in finalizedBy(r)}
        \cup UNION {adders(rs, t) : t \in mentionedBy(r) \ finalizedBy(r)}

\* C14: for every rule R of a ruleset, prerequisites(R) is the set of the
\* emitters of every type R finalizes and the adders of every type R
\* mentions and does not finalize; the types R finalizes are among those it
\* mentions, and the adders of a type are among its emitters.
C14_PrerequisitesAreEmittersAndAdders ==
    ruleset.ok =>
        /\ \A r \in RulesOf(ruleset) :
              /\ Range(prerequisites(ruleset, r)) = emittersAndAdders(ruleset, r)
              /\ finalizedBy(r) \subseteq mentionedBy(r)
        /\ \A t \in Types : adders(ruleset, t) \subseteq emitters(ruleset, t)

\* A ruleset with a rule whose prerequisites are only adders of a type it
\* mentions without finalizing it, and a rule that has emitters of a type it
\* finalizes that are no adders of it.
C14_Witness ==
    /\ ruleset.ok
    /\ \E r \in RulesOf(ruleset) :
          /\ finalizedBy(r) = {}
          /\ \E t \in mentionedBy(r) : adders(ruleset, t) # {}
    /\ \E r \in RulesOf(ruleset) :
          \E t \in finalizedBy(r) : emitters(ruleset, t) \ adders(ruleset, t) # {}

\* The RHS cannot change the type and the LHS guarantees one.
keepsType(r) == ~r.rhs.cct /\ r.lhs.kind \in {"type", "max", "bestCluster"}

\* What the rule is expected to emit: the LHS's type when it keeps the type,
\* else what the RHS declares.
couldEmit(r) == IF keepsType(r) THEN {r.lhs.type} ELSE r.rhs.ptypes

\* What it is expected to add: the same, less the type the LHS guarantees.
couldAdd(r) ==
    couldEmit(r) \ (IF r.lhs.kind \in {"type", "max", "bestCluster"}
                    THEN {r.lhs.type} ELSE {})

\* C15: an inward rule could emit the type its LHS guarantees when its RHS
\* cannot change type and the LHS guarantees one, and else the types its RHS
\* declares; it could add what it could emit, less the type the LHS
\* guarantees; and the two indices of the ruleset list it under exactly
\* these types.
C15_EmitAndAddSets ==
    ruleset.ok =>
        \A i \in 1..Len(ruleset.inRules) :
            /\ typesItCouldEmit(ruleset.inRules[i]) = couldEmit(ruleset.inRules[i])
            /\ typesItCouldAdd(ruleset.inRules[i]) = couldAdd(ruleset.inRules[i])
            /\ \A t \in Types :
                  /\ i \in emitters(ruleset, t) <=> t \in couldEmit(ruleset.inRules[i])
                  /\ i \in adders(ruleset, t) <=> t \in couldAdd(ruleset.inRules[i])

\* A ruleset with a rule that keeps the type of its LHS, and a rule that
\* could emit the type of its LHS among others and could add only the others.
C15_Witness ==
    /\ ruleset.ok
    /\ \E i \in 1..Len(ruleset.inRules) :
          /\ keepsType(ruleset.inRules[i])
          /\ adders(ruleset, ruleset.inRules[i].lhs.type)
                # emitters(ruleset, ruleset.inRules[i].lhs.type)
    /\ \E i \in 1..Len(ruleset.inRules) :
          /\ ruleset.inRules[i].rhs.cct
          /\ couldAdd(ruleset.inRules[i]) # {}
          /\ couldAdd(ruleset.inRules[i]) # couldEmit(ruleset.inRules[i])

\* type('A').bestCluster() -> type('B').score(2), and -> score(2)
ClusterRules ==
    {rule(BestCluster("A", NoOptions), TypeRhs("B", 2, NoNote)),
     rule(BestCluster("A", NoOptions), ScoreRhs(2, NoNote, {}))}

\* The inward rules of the ruleset, and the bestCluster rules.
InwardRulesOf(rs) == Range(rs.inRules) \cup ClusterRules

\* The combinations of types the fnodes of an LHS are sure to bear.
combinations(lhs) ==
    CASE lhs.kind = "dom" -> {}
      [] lhs.kind \in {"type", "max", "bestCluster"} -> {{lhs.type}}
      [] lhs.kind = "and" -> {{lhs.args[i].type : i \in 1..Len(lhs.args)}}

\* What an inward rule is expected to finalize.
finalizes(r) ==
    (IF r.lhs.kind \in {"max", "bestCluster"} THEN {r.lhs.type} ELSE {})
        \cup (IF r.rhs.cct
              THEN UNION {C \in combinations(r.lhs) : r.rhs.ptypes \ C # {}}
              ELSE {})

\* The LHS is type(t) and the RHS can emit nothing but t.
plainKeeper(r) ==
    /\ r.lhs.kind = "type"
    /\ couldEmit(r) = {r.lhs.type}

\* C16: an inward rule finalizes the type its LHS aggregates (max or
\* bestCluster) and, when its RHS could change type, the types of every
\* combination of LHS types outside which the RHS can emit a type, and no
\* other type; a type(t) rule whose RHS can emit only t finalizes nothing,
\* and its prerequisites are the adders of t.
C16_InwardFinalizes ==
    ruleset.ok =>
        \A r \in InwardRulesOf(ruleset) :
            /\ finalizedBy(r) = finalizes(r)
            /\ plainKeeper(r) =>
                  /\ finalizedBy(r) = {}
                  /\ Range(prerequisites(ruleset, r)) = adders(ruleset, r.lhs.type)

\* A ruleset with a type(t) rule whose RHS could change type and declares
\* only t, that has an adder of t to depend on, and a rule that finalizes a
\* type and has an emitter of it to depend on.
C16_Witness ==
    /\ ruleset.ok
    /\ \E r \in Range(ruleset.inRules) :
          /\ plainKeeper(r)
          /\ r.rhs.cct
          /\ adders(ruleset, r.lhs.type) # {}
    /\ \E r \in InwardRulesOf(ruleset) :
          /\ finalizedBy(r) # {}
          /\ prerequisites(ruleset, r) # <<>>

\* The inward rules that had run when the outward rule of the last get read
\* its matches: those done before the get, and those the get ran.
doneAtRead == last.doneBefore \cup (Range(last.executed) \ {OutId})

\* C17: an outward rule, the one get(lhs) makes included, finalizes every
\* type its LHS mentions, and when it reads its matches every inward rule
\* that could emit one of these types has been executed.
C17_OutwardFinalizesMentioned ==
    /\ \A r \in RulesOf(ruleset) :
          ~IsInward(r) => mentionedBy(r) \subseteq finalizedBy(r)
    /\ (Planned /\ last.status = NoError) =>
          /\ last.executed # <<>>
          /\ last.executed[Len(last.executed)] = OutId
          /\ \A t \in mentionedBy(lastOutRule) :
                emitters(ruleset, t) \subseteq doneAtRead

\* A get of type(t), which aggregates nothing, ran an emitter of t that is
\* no adder of t before it returned.
C17_Witness ==
    /\ Planned
    /\ last.status = NoError
    /\ lastOutRule.lhs.kind = "type"
    /\ \E t \in mentionedBy(lastOutRule) :
          (emitters(ruleset, t) \ adders(ruleset, t)) \cap Range(last.executed) # {}

\* ------------------------------------------ claims about what is refused
\* An argument of ruleset() that is a rule with a dom() LHS whose RHS gives
\* its facts no type.
domRuleWithoutType(x) ==
    /\ IsRule(x)
    /\ IsInward(x)
    /\ x.lhs.kind = "dom"
    /\ x.rhs.type = NoType

\* C18: a rule with a dom() LHS whose RHS assigns no type is refused when
\* the ruleset is built, with domRuleMustAssignType: ruleset() with such a
\* rule as its first argument ends with that error, and no get does.
C18_DomRuleRejectedAtConstruction ==
    /\ domRuleWithoutType(Head(ruleset.given)) =>
          ruleset.err = "domRuleMustAssignType"
    /\ last.status # "domRuleMustAssignType"

\* An inward rule whose RHS declares no possible types while its LHS
\* guarantees no type or its RHS could change type.
underspecified(x) ==
    /\ IsRule(x)
    /\ IsInward(x)
    /\ x.rhs.ptypes = {}
    /\ (x.lhs.kind \notin {"type", "max", "bestCluster"} \/ x.rhs.cct)

\* The arguments ruleset() cannot take, by position.
refused(given) ==
    {i \in 1..Len(given) : ~IsRule(given[i]) \/ underspecified(given[i])}

\* The first of them: the constructor takes its arguments in order.
firstRefused(given) ==
    CHOOSE i \in refused(given) : \A j \in refused(given) : i <= j

\* The place of a rule among the inward rules of the ruleset.
placeOf(rs, r) == CHOOSE k \in 1..Len(rs.inRules) : rs.inRules[k] = r

\* The inward rules among the arguments, by position.
inwardGiven(given) == {i \in 1..Len(given) : IsRule(given[i]) /\ IsInward(given[i])}

\* C19: ruleset() fails with underspecifiedEmission exactly when the first
\* argument it cannot take is an inward rule whose RHS declares no possible
\* types while the LHS guarantees no type or the RHS could change type, and
\* fails as well when that argument is no rule; when every argument is a rule
\* and none is such a rule it succeeds, and every inward rule is among its
\* inward rules, in the order given, and in an index for every type it could
\* emit.
C19_UnderspecifiedEmissionRefused ==
    /\ ruleset.err = NoError <=> refused(ruleset.given) = {}
    /\ refused(ruleset.given) # {} =>
          /\ ~ruleset.ok
          /\ ruleset.err = "underspecifiedEmission"
                <=> underspecified(ruleset.given[firstRefused(ruleset.given)])
          /\ ruleset.err = "notARule"
                <=> ~IsRule(ruleset.given[firstRefused(ruleset.given)])
    /\ ruleset.err = NoError =>
          /\ ruleset.ok
          /\ Len(ruleset.inRules) = Cardinality(inwardGiven(ruleset.given))
          /\ \A i, j \in inwardGiven(ruleset.given) :
                /\ ruleset.given[i] \in Range(ruleset.inRules)
                /\ i < j => placeOf(ruleset, ruleset.given[i])
                                < placeOf(ruleset, ruleset.given[j])
                /\ \A t \in couldEmit(ruleset.given[i]) :
                      placeOf(ruleset, ruleset.given[i]) \in emitters(ruleset, t)

\* ruleset() took a first rule and failed at a second, whose LHS guarantees
\* a type and whose RHS could change type and declares none.
C19_Witness ==
    /\ ruleset.err = "underspecifiedEmission"
    /\ firstRefused(ruleset.given) > 1
    /\ \E x \in {ruleset.given[firstRefused(ruleset.given)]} :
          /\ x.lhs.kind = "type"
          /\ x.rhs.cct

\* The last call was a get of something get cannot answer: a string that is
\* the key of no outward rule, or what is no string, LHS or element.
unknownKey ==
    /\ last.op = "get"
    /\ last.thing.how = "key"
    /\ \A o \in Range(ruleset.outRules) : o.rhs.key # last.thing.key

noThing == last.op = "get" /\ last.thing.how \in {"bad", "undefined"}

\* The last get planned and ran no rule.
ranNothing ==
    /\ last.executed = <<>>
    /\ last.sorted = <<>>
    /\ b.doneRules = last.doneBefore

\* C20: get of a string that is the key of no outward rule fails with
\* missingOutKey, get of what is neither a string, an LHS nor an element,
\* undefined and null included, fails with badGetArgument, and in both
\* cases no rule is executed.
C20_UnanswerableGetRejected ==
    /\ unknownKey => (last.status = "missingOutKey" /\ ranNothing)
    /\ noThing => (last.status = "badGetArgument" /\ ranNothing)

\* ----------------------------------- claims about fnodes and clusters
\* One fnode at most was made of every element, one was made of every
\* element that was looked up, and what is known of an element is held by
\* that fnode.
oneFnodePerElement(x) ==
    \A e \in Elements :
        /\ x.created[e] <= 1
        /\ x.created[e] = 1 <=> e \in x.elementCache
        /\ typesSoFar(x, e) # {} => e \in x.elementCache
        /\ \A t \in Types : e \in Range(x.typeCache[t]) => e \in x.elementCache

C21_Step ==
    /\ oneFnodePerElement(b')
    /\ (IsGet /\ last'.thing.how = "element") =>
          /\ last'.status = NoError
          /\ last'.fnodes = <<last'.thing.element>>
          /\ last'.executed = <<>>
          /\ last'.sorted = <<>>
          /\ Facts(b') = Facts(b)
          /\ b'.invoked = b.invoked
          /\ last'.thing.element \in b'.elementCache

\* C21: get(element) returns the fnode of the element and runs no rule:
\* doneRules, typeCache, maxCache and all scores stay as they were; and in a
\* bound ruleset one fnode at most is ever made of an element, which every
\* lookup of the element, by get(element), by a dom() match or by a fact
\* naming the element, returns.
C21_GetElementRunsNothing == [][C21_Step]_vars

\* get(element) was called for an element whose fnode a rule had made and
\* typed before; and a fact of a rule that ran had named another element than
\* the one it was derived from.
C21_Witness ==
    /\ last.op = "get"
    /\ last.thing.how = "element"
    /\ typesSoFar(b, last.thing.element) # {}
    /\ \E i \in b.doneRules : ruleset.inRules[i].rhs.element # NoElement

\* The fnodes that bear type t.
bearing(x, t) == {e \in Elements : hasType(x, e, t)}

\* The members of S within delta of a member of T, and T.
near(S, T, delta) ==
    T \cup {e \in S : \E o \in T : fnodeDistances[<<e, o>>] <= delta}

\* The members of S joined to e by a chain of members of S, each within
\* delta of the next.
RECURSIVE chained(_, _, _)
chained(S, T, delta) ==
    IF near(S, T, delta) = T THEN T ELSE chained(S, near(S, T, delta), delta)

\* The clusters of the fnodes of S: its members grouped by such chains.
groups(S, delta) == {chained(S, {e}, delta) : e \in S}

\* The sum of the scores for t of the fnodes of a set.
RECURSIVE total(_, _, _)
total(x, t, S) ==
    IF S = {} THEN 0
    ELSE LET e == CHOOSE o \in S : TRUE
         IN scoreSoFarFor(x, e, t) + total(x, t, S \ {e})

\* The last get was a successful get of type(t).bestCluster(), without a
\* predicate.
gotBestCluster ==
    /\ Planned
    /\ last.status = NoError
    /\ lastOutRule.lhs.kind = "bestCluster"
    /\ lastOutRule.lhs.pred = Elements

\* C22: the LHS type(t).bestCluster() raises no error: a get of it fails only
\* in planning or in an inward rule.  It returns the empty sequence when no
\* fnode bears t, and else the fnodes of one of the clusters of
\* the fnodes of type t, one whose scores for t sum to no less than those of
\* any other cluster.
C22_BestClusterIsTopCluster ==
    /\ (/\ Planned
        /\ lastOutRule.lhs.kind = "bestCluster"
        /\ last.status # NoError) =>
          OutId \notin Range(last.executed)
    /\ (gotBestCluster /\ bearing(b, lastOutRule.lhs.type) = {}) =>
          last.fnodes = <<>>
    /\ (gotBestCluster /\ bearing(b, lastOutRule.lhs.type) # {}) =>
          /\ Range(last.fnodes)
                \in groups(bearing(b, lastOutRule.lhs.type), lastOutRule.lhs.options)
          /\ Len(last.fnodes) = Cardinality(Range(last.fnodes))
          /\ \A g \in groups(bearing(b, lastOutRule.lhs.type), lastOutRule.lhs.options) :
                total(b, lastOutRule.lhs.type, Range(last.fnodes))
                    >= total(b, lastOutRule.lhs.type, g)

\* A get of type(t).bestCluster() found two clusters of different sums.
C22_Witness ==
    /\ gotBestCluster
    /\ \E g, h \in groups(bearing(b, lastOutRule.lhs.type), lastOutRule.lhs.options) :
          total(b, lastOutRule.lhs.type, g) < total(b, lastOutRule.lhs.type, h)

\* ----------------------------------- claims about the unbound ruleset
\* What a Ruleset holds: its inward rules, its map of outward rules and its
\* two indices.
fieldsOf(rs) ==
    [inRules |-> rs.inRules, outRules |-> rs.outRules, keys |-> rs.keys,
     rulesThatCouldEmit |-> rs.rulesThatCouldEmit,
     rulesThatCouldAdd |-> rs.rulesThatCouldAdd]

\* ruleset(...r.rules())
rebuilt(rs) == Ruleset(allRules(rs))

\* C23: ruleset(...r.rules()) has the inward rules of r in the same order,
\* the same map from keys to outward rules and the same two indices, also
\* when r was given two outward rules with one key, and every get on a
\* ruleset bound from it returns and leaves what the same get on r does.
C23_RulesRoundTrip ==
    ruleset.ok =>
        /\ rebuilt(ruleset).err = NoError
        /\ fieldsOf(rebuilt(ruleset)) = fieldsOf(ruleset)
        /\ bound =>
              \A thing \in Things :
                  get(rebuilt(ruleset), b, thing) = get(ruleset, b, thing)

\* A ruleset that was given an inward rule and two outward rules with one
\* key has been bound and asked for that key.
C23_Witness ==
    /\ ruleset.ok
    /\ ruleset.inRules # <<>>
    /\ \E i, j \in 1..Len(ruleset.given) :
          /\ i < j
          /\ ~IsInward(ruleset.given[i])
          /\ ~IsInward(ruleset.given[j])
          /\ ruleset.given[i].rhs.key = ruleset.given[j].rhs.key
          /\ last.op = "get"
          /\ last.thing.how = "key"
          /\ last.thing.key = ruleset.given[i].rhs.key
          /\ last.status = NoError

\* The step is a call of against(), of the first kind or the second.
IsAgainst == last'.op = "against" /\ last' # last
IsAgainstOther == other'.made /\ other'.gets = 0 /\ other' # other
IsGetOther == other'.gets > other.gets

C24_Step ==
    /\ fieldsOf(ruleset') = fieldsOf(ruleset)
    /\ IsAgainst =>
          (Facts(b') = Facts(BoundRuleset(ruleset)) /\ b'.elementCache = {})
    /\ IsAgainstOther =>
          /\ Facts(otherCaches') = Facts(BoundRuleset(ruleset))
          /\ otherCaches'.elementCache = {}
          /\ Facts(b') = Facts(b)
    /\ IsGetOther => (Facts(b') = Facts(b) /\ b'.elementCache = b.elementCache)
    /\ (IsGet \/ IsAgainst) =>
          /\ Facts(otherCaches') = Facts(otherCaches)
          /\ otherCaches'.elementCache = otherCaches.elementCache

\* C24: neither against() nor a get on a bound ruleset changes the rule
\* lists or the indices of the ruleset; against() returns a bound ruleset with
\* empty caches every time; and a get on one bound ruleset leaves doneRules,
\* the caches and the fnodes of another bound ruleset of the same ruleset as
\* they were.
C24_RulesetSharedUnchanged == [][C24_Step]_vars

\* Gets have run rules on two bound rulesets of one ruleset, which hold
\* different facts.
C24_Witness ==
    /\ other.made
    /\ other.gets > 0
    /\ b.doneRules # {}
    /\ otherCaches.doneRules # {}
    /\ Facts(otherCaches) # Facts(b)

\* ---------------------------------- claims about and() and clusters()
\* C25: and(...) fails with unsupportedAnd exactly when one of its arguments
\* is not a type() LHS (a max, bestCluster, dom or and LHS), and with only
\* type() arguments it makes the LHS of these arguments.
C25_AndTakesOnlyTypes ==
    util.op = "and" =>
        /\ util.result.err = "unsupportedAnd"
              <=> \E i \in 1..Len(util.args) : util.args[i].kind # "type"
        /\ util.result.err = NoError
              <=> \A i \in 1..Len(util.args) : util.args[i].kind = "type"
        /\ util.result.err = NoError =>
              (util.result.lhs.kind = "and" /\ util.result.lhs.args = util.args)

\* and() was refused a type() LHS together with an LHS that aggregates the
\* type.
C25_Witness ==
    /\ util.op = "and"
    /\ util.result.err = "unsupportedAnd"
    /\ \E i, j \in 1..Len(util.args) :
          util.args[i].kind = "type" /\ util.args[j].kind \in {"max", "bestCluster"}

\* The last call was a get of an and() LHS that returned.
gotAnd ==
    /\ last.op = "get"
    /\ last.thing.how = "lhs"
    /\ last.thing.lhs.kind = "and"
    /\ last.status = NoError

\* No argument of the and() LHS carries a when() predicate.
plainArgs(lhs) == \A i \in 1..Len(lhs.args) : lhs.args[i].pred = Elements

\* The elements whose fnode bears the type of every argument.
bearingAll(x, lhs) ==
    {e \in Elements : \A i \in 1..Len(lhs.args) : hasType(x, e, lhs.args[i].type)}

\* The same and() with its arguments in the opposite order.
turned(thing) == LhsThing(And(Reversed(thing.lhs.args)))

\* What an and() without predicates matched: the fnodes bearing every type,
\* each once.
andMatchesBearers ==
    (gotAnd /\ plainArgs(last.thing.lhs)) =>
        /\ Range(last.fnodes) = bearingAll(b, last.thing.lhs)
        /\ \A i, j \in 1..Len(last.fnodes) : last.fnodes[i] = last.fnodes[j] => i = j

\* What the analysis of an and() LHS says.
andAnalysis ==
    \A thing \in AndThings :
        /\ Range(typesMentioned(thing.lhs))
              = {thing.lhs.args[i].type : i \in 1..Len(thing.lhs.args)}
        /\ guaranteedType(thing.lhs) = NoType

\* A get of an and() LHS ends as the get of the same arguments in the
\* opposite order would have, with the same set of fnodes.
andOrderStep ==
    (IsGet /\ last'.thing.how = "lhs" /\ last'.thing.lhs.kind = "and") =>
        \E o \in {outcome(turned(last'.thing), b.doneRules,
                          get(ruleset, b, turned(last'.thing)))} :
            /\ o.last.status = last'.status
            /\ Range(o.last.fnodes) = Range(last'.fnodes)

andOrder == [][andOrderStep]_vars

\* The same, for and() LHSs without predicates only.
andOrderPlainStep == plainArgs(last'.thing.lhs) => andOrderStep

andOrderPlain == [][andOrderPlainStep]_vars

\* C26: an and() LHS matches exactly the fnodes that bear the type of every
\* argument, each once; the set it matches is the same for every order of
\* its arguments, also when arguments carry when() predicates; it mentions
\* every type and guarantees none.
C26_AndMatchesEveryType ==
    [][andOrderStep /\ andMatchesBearers' /\ andAnalysis]_vars

\* The items of a list of clusters, cluster by cluster.
RECURSIVE flat(_)
flat(cs) == IF cs = <<>> THEN <<>> ELSE Head(cs) \o flat(Tail(cs))

\* C27: clusters() returns a partition of its items: no cluster is empty,
\* every item is in one cluster and in one place of it, and nothing else is
\* in a cluster; no items give no cluster, one item gives one cluster.
C27_ClustersPartitionItems ==
    util.op = "clusters" =>
        /\ \A i \in 1..Len(util.result) : util.result[i] # <<>>
        /\ Range(flat(util.result)) = Range(util.args.items)
        /\ Len(flat(util.result)) = Len(util.args.items)
        /\ util.args.items = <<>> => util.result = <<>>
        /\ Len(util.args.items) = 1 => util.result = <<util.args.items>>

\* Four items came back as a cluster of three and a cluster of one.
C27_Witness ==
    /\ util.op = "clusters"
    /\ Len(util.args.items) = MaxItems
    /\ Len(util.result) = 2
    /\ \E i \in 1..2 : Len(util.result[i]) = 3

\* The items of S that a chain of steps of at most delta joins to those of
\* seen.
RECURSIVE component(_, _, _, _)
component(d, delta, S, seen) ==
    IF \E y \in S \ seen : \E x \in seen : d[<<x, y>>] <= delta
    THEN component(d, delta, S,
                   seen \cup {y \in S \ seen : \E x \in seen : d[<<x, y>>] <= delta})
    ELSE seen

\* The connected components of the items under steps of at most delta.
components(d, delta, S) == {component(d, delta, S, {x}) : x \in S}

\* C28: the clusters are the connected components of the graph on the items
\* with an edge between the items at most splittingDistance apart: items of
\* two clusters are farther apart than that, and the items of a cluster are
\* joined by chains of such edges.
C28_ClustersAreComponents ==
    util.op = "clusters" =>
        /\ {Range(util.result[i]) : i \in 1..Len(util.result)}
              = components(util.args.d, util.args.splittingDistance,
                           Range(util.args.items))
        /\ \A i, j \in 1..Len(util.result) :
              i # j => \A x \in Range(util.result[i]), y \in Range(util.result[j]) :
                          util.args.d[<<x, y>>] > util.args.splittingDistance

\* A cluster of three items two of which are farther apart than the
\* splitting distance, joined through the third, next to another cluster.
C28_Witness ==
    /\ util.op = "clusters"
    /\ Len(util.result) = 2
    /\ \E i \in 1..2 :
          /\ Len(util.result[i]) = 3
          /\ \E x, y \in Range(util.result[i]) :
                util.args.d[<<x, y>>] > util.args.splittingDistance

\* ------------------------------------------------ claims about distance()
\* The call was distance(a, c, costs) on a document.
calledDistance == util.op = "distance"

\* One of the two elements is a proper ancestor of the other.
oneContainsOther(doc, a, c) ==
    a # c /\ (contains(doc, a, c) \/ contains(doc, c, a))

\* The distance the other way round.
distanceBack == distance(util.args.doc, util.args.costs, util.args.c, util.args.a)

\* What the caller's additionalCost returns for the two elements, each way.
additional == util.args.costs.additionalCost[<<util.args.a, util.args.c>>]
additionalBack == util.args.costs.additionalCost[<<util.args.c, util.args.a>>]

\* The structural cost under the default costs with nothing between the two
\* elements: 1 for the common ancestor and 1 for every further level of the
\* same tag.
besideEachOther ==
    /\ util.args.doc.parent[util.args.a] = util.args.doc.parent[util.args.c]
    /\ util.args.doc.tag[util.args.a] = util.args.doc.tag[util.args.c]
    /\ \A x \in 1..MaxNodes :
          util.args.doc.parent[x] = util.args.doc.parent[util.args.a] =>
              ~(util.args.a < x /\ x < util.args.c) /\ ~(util.args.c < x /\ x < util.args.a)
    /\ util.args.costs.differentDepthCost = 2
    /\ util.args.costs.sameTagCost = 1
    /\ util.args.costs.strideCost = 1

\* What holds of distance() whatever the cost options.
distanceParts ==
    /\ util.args.a = util.args.c => util.result = 0
    /\ oneContainsOther(util.args.doc, util.args.a, util.args.c) =>
          (util.result = MaxValue /\ distanceBack = MaxValue)
    /\ (util.args.a # util.args.c
            /\ ~oneContainsOther(util.args.doc, util.args.a, util.args.c)) =>
          /\ util.result - additional = distanceBack - additionalBack
          /\ util.result - additional >= 0
          /\ util.result - additional < MaxValue
          /\ besideEachOther => util.result - additional = 2

\* C29 as stated: the distance is the same both ways for any cost options,
\* 0 from an element to itself, MAX between an element and its ancestor, and
\* otherwise the structural cost plus additionalCost(A, B).
C29_DistanceSymmetricForAnyCosts ==
    calledDistance => (distanceParts /\ util.result = distanceBack)

\* C29: distance(A, A) is 0; between an element and a proper ancestor the
\* distance is MAX both ways; otherwise it is a structural cost that is the
\* same both ways plus additionalCost(A, B), so distance(A, B) is
\* distance(B, A) whenever additionalCost(A, B) is additionalCost(B, A).
C29_DistanceSymmetricUpToAdditionalCost ==
    calledDistance =>
        /\ distanceParts
        /\ additional = additionalBack => util.result = distanceBack

\* Two elements at different depths, neither in the other, with an element
\* in between, and an additional cost that is the same both ways and not 0.
C29_Witness ==
    /\ calledDistance
    /\ ~oneContainsOther(util.args.doc, util.args.a, util.args.c)
    /\ Len(pathToRoot(util.args.doc, util.args.a)) # Len(pathToRoot(util.args.doc, util.args.c))
    /\ \E x \in 1..MaxNodes : util.args.c < x /\ x < util.args.a
    /\ additional = additionalBack
    /\ additional > 0
    /\ util.args.costs.strideCost > 0
    /\ util.result = distanceBack

\* --------------------------------------------------- claims about anneal()
\* anneal() has returned.
annealed == util.op = "anneal" /\ util.pc = "returned"

\* C30: anneal() returns the best solution seen: the returned solution costs
\* no more than the initial solution and than any solution whose cost was
\* computed during the run.
C30_AnnealReturnsBestSeen ==
    annealed => \A c \in util.seen : util.cost[util.result] <= c

\* The sum of a list of numbers.
RECURSIVE sumOf(_)
sumOf(q) == IF q = <<>> THEN 0 ELSE Head(q) + sumOf(Tail(q))

\* The counts of a run of anneal() so far.
annealCounts ==
    util.op = "anneal" =>
        /\ util.i <= COOLING_STEPS
        /\ util.j <= STEPS_PER_TEMP
        /\ Len(util.steps) = util.i
        /\ \A k \in 1..Len(util.steps) :
              util.steps[k] >= 1 /\ util.steps[k] <= STEPS_PER_TEMP
        /\ util.err = NoError => util.calls = 1 + util.n
        /\ util.pc = "returned" =>
              (util.i = COOLING_STEPS /\ util.n = sumOf(util.steps))
        /\ util.pc = "failed" =>
              /\ util.err = "mustBeOverridden"
              /\ util.n = 0 /\ util.i = 0 /\ util.calls = 0 /\ util.steps = <<>>

\* C31: anneal() ends, whatever the random choices: after COOLING_STEPS
\* cooling steps of one to STEPS_PER_TEMP inner iterations each, with one
\* call of solutionCost for the initial solution and one per inner
\* iteration; on Annealer itself it fails with the must-be-overridden error
\* before any iteration.
C31_AnnealTerminates ==
    /\ []annealCounts
    /\ <>(util.op = "anneal" /\ util.pc \in {"returned", "failed"})

\* A run returned after a cooling step of one iteration and one of
\* STEPS_PER_TEMP iterations.
C31_Witness ==
    /\ annealed
    /\ util.steps = <<1, STEPS_PER_TEMP>>
    /\ util.calls = 2 + STEPS_PER_TEMP

\* One inner iteration of anneal() was made.
IsStep == util.op = "anneal" /\ util.pc = "steps" /\ util'.n = util.n + 1

C32_Step ==
    IsStep =>
        /\ util.cost[util'.drawn] < util.currentCost =>
              /\ util'.currentSolution = util'.drawn
              /\ util'.currentCost = util.cost[util'.drawn]
        /\ (util'.pc = "cooled" /\ util'.j < STEPS_PER_TEMP) =>
              util'.currentCost = util'.startCost
        /\ util'.pc = "steps" <=>
              (util'.currentCost # util'.startCost /\ util'.j < STEPS_PER_TEMP)
        /\ util'.startCost = util.startCost

\* C32: in anneal() a neighbour that costs less than the current solution
\* is always taken; the inner loop of a cooling step ends before
\* STEPS_PER_TEMP iterations only when the current cost is the cost the step
\* started with, and while it is another cost the loop goes on up to
\* STEPS_PER_TEMP iterations.
C32_LowerAcceptedAndEarlyExit == [][C32_Step]_vars

\* A cooling step whose first neighbour cost more and was taken, and which
\* went on to a second iteration.
C32_Witness ==
    /\ util.op = "anneal"
    /\ util.pc = "steps"
    /\ util.j = 1
    /\ util.m = 1
    /\ util.currentCost > util.startCost

\* ------------------------------------------------ claims about conserveScore
\* The inward rules whose RHS asks to conserve the score and whose LHS
\* guarantees no type.
conservesWithoutType ==
    {k \in 1..Len(ruleset.inRules) :
        /\ ruleset.inRules[k].rhs.conserveScore
        /\ guaranteedType(ruleset.inRules[k].lhs) = NoType}

\* The product of the factors that were multiplied into the score of element
\* e for type t by the first p multiplications of the log.
RECURSIVE factorsBefore(_, _, _, _)
factorsBefore(log, p, e, t) ==
    IF p = 0 THEN 1
    ELSE (IF log[p].target = e /\ log[p].type = t THEN log[p].factor ELSE 1)
            * factorsBefore(log, p - 1, e, t)

\* Every score conserved came from a rule whose LHS guarantees a type, was
\* the score of the left fnode for that type, went to the type of the fact,
\* and was followed by the fact's own score.
conservedFromLeftType(x) ==
    \A p \in 1..Len(x.multiplied) :
        x.multiplied[p].step = "conserveScore" =>
            /\ x.multiplied[p].rule \notin conservesWithoutType
            /\ ruleset.inRules[x.multiplied[p].rule].rhs.conserveScore
            /\ x.multiplied[p].type
                  = rightTypeOf(factOf(ruleset.inRules[x.multiplied[p].rule].rhs),
                                ruleset.inRules[x.multiplied[p].rule].lhs)
            /\ x.multiplied[p].factor
                  = factorsBefore(x.multiplied, p - 1, x.multiplied[p].source,
                                  guaranteedType(ruleset.inRules[x.multiplied[p].rule].lhs))
            /\ ruleset.inRules[x.multiplied[p].rule].rhs.score # NoScore =>
                  /\ p < Len(x.multiplied)
                  /\ x.multiplied[p + 1].step = "score"
                  /\ x.multiplied[p + 1].rule = x.multiplied[p].rule
                  /\ x.multiplied[p + 1].target = x.multiplied[p].target
                  /\ x.multiplied[p + 1].type = x.multiplied[p].type
                  /\ x.multiplied[p + 1].factor
                        = ruleset.inRules[x.multiplied[p].rule].rhs.score

\* Every score a conserving rule gave was preceded by the conserved score.
conservedFirst(x) ==
    \A p \in 1..Len(x.multiplied) :
        (x.multiplied[p].step = "score"
            /\ ruleset.inRules[x.multiplied[p].rule].rhs.conserveScore) =>
            /\ p > 1
            /\ x.multiplied[p - 1].step = "conserveScore"
            /\ x.multiplied[p - 1].rule = x.multiplied[p].rule

\* C33: a fact that asks to conserve the score in a rule whose LHS guarantees
\* no type makes the rule fail with conserveScoreWithoutType: the rule is
\* not put in doneRules and the fact multiplies no score; with an LHS that
\* guarantees a type, the left fnode's score for that type is multiplied
\* into the score of the fact's type, and the fact's own score as well.
C33_ConserveScore ==
    /\ conservedFromLeftType(b)
    /\ conservedFirst(b)
    /\ \A k \in conservesWithoutType :
          /\ \A p \in 1..Len(b.multiplied) : b.multiplied[p].rule # k
          /\ k \in Range(last.executed) =>
                \/ /\ last.status = "conserveScoreWithoutType"
                   /\ last.executed[Len(last.executed)] = k
                   /\ k \notin b.doneRules
                \/ /\ ruleset.inRules[k].lhs.kind = "and"
                   /\ k \in b.doneRules
                   /\ bearingAll(b, ruleset.inRules[k].lhs) = {}

\* A get failed in a dom() rule that conserves the score, after another
\* rule had conserved the score of a fnode of type A into its type B.
C33_Witness ==
    /\ last.status = "conserveScoreWithoutType"
    /\ last.executed[Len(last.executed)] \in conservesWithoutType
    /\ \E p \in 1..Len(b.multiplied) :
          /\ b.multiplied[p].step = "conserveScore"
          /\ b.multiplied[p].factor > 1
          /\ ruleset.inRules[b.multiplied[p].rule].rhs.score # NoScore

\* ------------------------------------------------- claims about the caches
\* The LHS a get of thing evaluates last: that of the rule it asks for.
lhsAsked(thing) ==
    IF thing.how = "lhs" THEN thing.lhs ELSE outRuleFor(ruleset, thing.key).lhs

\* The get just made repeats an earlier get that returned.
repeatsGet ==
    /\ IsGet
    /\ last'.status = NoError
    /\ \E k \in 1..Len(history) :
          history[k].thing = last'.thing /\ history[k].status = NoError

\* A repeated get of a max() LHS scans for no maximum.
maxNotScannedAgain ==
    (repeatsGet /\ last'.thing.how \in {"key", "lhs"}
        /\ lhsAsked(last'.thing).kind = "max") =>
        (b'.scans = b.scans /\ b'.clusterings = b.clusterings)

\* A repeated get of a bestCluster() LHS clusters nothing.
bestClusterNotClusteredAgain ==
    (repeatsGet /\ last'.thing.how = "lhs"
        /\ lhsAsked(last'.thing).kind = "bestCluster") =>
        (b'.scans = b.scans /\ b'.clusterings = b.clusterings)

maxNotScannedAgainAlways == [][maxNotScannedAgain]_vars

\* C34: a repeated get of a max() or bestCluster() LHS on the same bound
\* ruleset returns the result computed before: no new scan for the maximum,
\* no clustering and no call of the distance function.
C34_AggregatesNotRecomputed ==
    [][maxNotScannedAgain /\ bestClusterNotClusteredAgain]_vars

\* ------------------------------------------------ claims about planning
\* Rule r mentions a type that no inward rule could add, or finalizes a type
\* that no inward rule could emit.
lacksInput(rs, r) ==
    \/ \E t \in mentionedBy(r) : adders(rs, t) = {}
    \/ \E t \in finalizedBy(r) : emitters(rs, t) = {}

\* The rules a get of the last thing needs: the rule asked for and its
\* transitive prerequisites.
neededByLast == {OutId} \cup upstream(lastOutRule, OutId)

\* C35: a get that needs a rule whose LHS mentions a type no inward rule
\* could add, or finalizes a type no inward rule could emit, fails with the
\* error of the missing type and runs nothing, instead of planning without
\* prerequisites and returning nothing.
C35_MissingInputRefused ==
    (Planned /\ \E id \in neededByLast :
                    lacksInput(ruleset, ruleOf(ruleset, lastOutRule, id))) =>
        /\ last.status = "missingPrerequisite"
        /\ last.executed = <<>>

\* The elements whose fnode bears type t.
bearers(x, t) == {e \in Elements : hasType(x, e, t)}

\* The left fnodes whose facts rule k multiplied a score for.
workedOn(x, k) ==
    {x.multiplied[p].source : p \in {q \in 1..Len(x.multiplied) : x.multiplied[q].rule = k}}

\* The done rules that take every fnode of a type and only multiply its
\* score for that type.
scorersOfType(x) ==
    {k \in x.doneRules :
        /\ ruleset.inRules[k].lhs.kind = "type"
        /\ ruleset.inRules[k].lhs.pred = Elements
        /\ ruleset.inRules[k].rhs.type = NoType
        /\ ruleset.inRules[k].rhs.element = NoElement
        /\ ruleset.inRules[k].rhs.score # NoScore}

\* An fnode is in typeCache[t] only if it bears t.
cachedBearType(x) ==
    \A t \in Types : Range(x.typeCache[t]) \subseteq bearers(x, t)

\* Every fnode that bears a type was among those a done rule over that type
\* worked on.
sawAllBearers(x) ==
    \A k \in scorersOfType(x) :
        bearers(x, ruleset.inRules[k].lhs.type) \subseteq workedOn(x, k)

\* Some rule of the ruleset gives its fact to another element than the one it
\* was derived from.
redirects == \E k \in 1..Len(ruleset.inRules) : ruleset.inRules[k].rhs.element # NoElement

\* Without such a rule every done rule saw all bearers.
sawAllBearersUnlessRedirected == redirects \/ sawAllBearers(b)

\* C36: when a rule that selects by type t is executed, every inward rule
\* that can make some fnode newly bear t, a rule of LHS type t whose fact goes
\* to another element included, has been executed, so that the rule works on
\* every fnode that ever bears t; and an fnode is in typeCache[t] only if it
\* bears t.
C36_TypeCacheComprehensive == cachedBearType(b) /\ sawAllBearers(b)

\* A populated maxCache entry holds the top scorers among the fnodes that
\* bear the type now.
maxCacheFresh(x) ==
    \A t \in Types : x.maxCache[t].has => Range(x.maxCache[t].val) = topScorers(x, t)

\* A populated maxCache entry is not replaced by a get on the bound ruleset.
maxCacheKept ==
    IsGet => \A t \in Types : b.maxCache[t].has => b'.maxCache[t] = b.maxCache[t]

\* No get so far has asked with a when() predicate.
askedWithoutPredicate ==
    \A i \in 1..Len(history) : history[i].thing.lhs.pred = Elements

\* Without a predicate in any get, the populated entries hold the top scorers.
maxCacheFreshWithoutPredicate == askedWithoutPredicate => maxCacheFresh(b)

\* C37: once maxCache[t] is populated, it holds at every later state the
\* maximum-scoring fnodes among all fnodes that bear t then, and the entry is
\* never replaced.
C37_MaxCacheNeverStale == [][maxCacheFresh(b') /\ maxCacheKept]_vars

\* The inward rule finalizes, through its LHS, a type that its RHS could
\* emit.
finalizesOwnType(k) ==
    finalizedBy(ruleset.inRules[k]) \cap typesItCouldEmit(ruleset.inRules[k]) # {}

\* The prerequisites of a rule other than the rule itself.
needsOthers(outRule, id) == needs(outRule, id) \ {id}

RECURSIVE reachOthers(_, _)
reachOthers(outRule, S) ==
    LET T == S \cup UNION {needsOthers(outRule, i) : i \in S}
    IN IF T = S THEN S ELSE reachOthers(outRule, T)

\* Some rule the last get needs is, through other rules, its own prerequisite.
cycleThroughOthers ==
    \E id \in neededByLast \ {OutId} :
        \E n \in needsOthers(lastOutRule, id) : id \in reachOthers(lastOutRule, {n})

\* The rule ran in the last get after every other rule the get ran that
\* emits a type the rule finalizes.
ranAfterOtherEmitters(k) ==
    \A p, q \in 1..Len(last.executed) :
        (/\ last.executed[p] = k
         /\ last.executed[q] \notin {k, OutId}
         /\ \E t \in finalizedBy(ruleset.inRules[k]) :
               last.executed[q] \in emitters(ruleset, t)) => q < p

\* C38: a rule that finalizes a type through its LHS and emits the same type
\* through its RHS is no obstacle to itself: a get that needs it, with no
\* cycle through other rules, does not fail with cycle, and when it succeeds
\* it has run the rule once, after the other emitters of the type.
C38_NoRuleBlocksItself ==
    Planned =>
        \A k \in (neededByLast \ {OutId}) \ last.doneBefore :
            (finalizesOwnType(k) /\ ~cycleThroughOthers) =>
                /\ last.status # "cycle"
                /\ last.status = NoError =>
                      /\ b.invoked[k] = 1
                      /\ ranAfterOtherEmitters(k)

\* Without a rule that finalizes a type it emits, a get fails with cycle
\* only when there is a cycle through other rules.
cycleOnlyThroughOthers ==
    (/\ Planned
     /\ \A k \in neededByLast \ {OutId} : ~finalizesOwnType(k)
     /\ last.status = "cycle") => cycleThroughOthers

\* Every prerequisite of a done rule is done.
closedUnderPrerequisites(x) ==
    \A k \in x.doneRules : needs(OutRules[1], k) \subseteq x.doneRules

\* The rules a get plans are the requested rule and those of its transitive
\* prerequisites that were not done before.
planOmitsOnlyDone ==
    (Planned /\ last.status # "cycle") =>
        Range(last.sorted) = neededByLast \ last.doneBefore

\* A get, failed or not, takes no rule out of doneRules.
doneRulesGrow == IsGet => b.doneRules \subseteq b'.doneRules

\* C39: over any sequence of gets, failed ones included, doneRules only
\* grows, holds inward rules of the ruleset only and holds every
\* prerequisite of each rule it holds; so the walk that stops at done rules
\* plans every rule not yet executed that the requested rule needs.
C39_DoneRulesClosed ==
    /\ [][doneRulesGrow]_vars
    /\ [](/\ b.doneRules \subseteq 1..Len(ruleset.inRules)
          /\ closedUnderPrerequisites(b)
          /\ planOmitsOnlyDone)

\* A get failed on a rule's error; the next get planned a rule, one of whose
\* prerequisites was done already, and stopped the walk there.
C39_Witness ==
    /\ Planned
    /\ last.doneBefore # {}
    /\ \E i \in 1..(Len(history) - 1) :
          history[i].status \notin {NoError, "cycle", "missingOutKey"}
    /\ \E k \in Range(last.sorted) \ {OutId} :
          needs(lastOutRule, k) \cap last.doneBefore # {}

\* ------------------------------------- _prerequisitesTo, call by call
\* One call of BoundRuleset.get(thing) taken apart: every iteration of the
\* loop of _prerequisitesTo is a step, and the sort and the run of the rules
\* are the last one.  util.stack holds the calls of _prerequisitesTo that
\* have not returned, the innermost last, each with the prerequisites its
\* loop has still to visit; util.expanded lists the rules _prerequisitesTo
\* was called with.
frame(outRule, id) ==
    [id |-> id, prereqs |-> prerequisites(ruleset, ruleOf(ruleset, outRule, id))]

planning(thing, outRule) ==
    [op |-> "plan", pc |-> "walking", thing |-> thing, outRule |-> outRule,
     stack |-> <<frame(outRule, OutId)>>, undonePrereqs |-> <<>>,
     expanded |-> <<OutId>>]

\* The things get plans for.
PlanThings ==
    {KeyThing("best"), KeyThing("bs"), LhsThing(OfType("A")), LhsThing(Dom(Elements))}

\* get(thing) up to its call of _execute and the first call of
\* _prerequisitesTo.
PlanStart ==
    /\ bound
    /\ util = NoUtil
    /\ Len(history) < MaxGets
    /\ \E thing \in PlanThings : util' = planning(thing, requested(thing))
    /\ UNCHANGED <<ruleset, bound, b, last, history, other>>

\* The innermost call of _prerequisitesTo with its loop moved on by one.
nextPrereq(stack) ==
    [stack EXCEPT ![Len(stack)].prereqs = Tail(@)]

\* One iteration that calls _prerequisitesTo for every undone prerequisite,
\* added already or not.
walkedAgain(p, doneRules) ==
    LET top == p.stack[Len(p.stack)]
        prereq == Head(top.prereqs)
    IN IF prereq \in doneRules THEN [p EXCEPT !.stack = nextPrereq(@)]
       ELSE [p EXCEPT !.undonePrereqs = mapPush(@, prereq, top.id),
                      !.stack = Append(nextPrereq(@), frame(p.outRule, prereq)),
                      !.expanded = Append(@, prereq)]

\* One iteration of the loop of _prerequisitesTo.
walked(p, doneRules) ==
    LET top == p.stack[Len(p.stack)]
        prereq == Head(top.prereqs)
        alreadyAdded == mapHas(p.undonePrereqs, prereq)
    IN IF prereq \in doneRules THEN [p EXCEPT !.stack = nextPrereq(@)]
       ELSE IF alreadyAdded
            THEN [p EXCEPT !.undonePrereqs = mapPush(@, prereq, top.id),
                           !.stack = nextPrereq(@)]
            ELSE [p EXCEPT !.undonePrereqs = mapPush(@, prereq, top.id),
                           !.stack = Append(nextPrereq(@), frame(p.outRule, prereq)),
                           !.expanded = Append(@, prereq)]

PlanStep ==
    /\ util.op = "plan"
    /\ util.pc = "walking"
    /\ util.stack[Len(util.stack)].prereqs # <<>>
    /\ util' = walked(util, b.doneRules)
    /\ UNCHANGED <<ruleset, bound, b, last, history, other>>

\* The loop of an inner call is over: return undonePrereqs.
PlanReturn ==
    /\ util.op = "plan"
    /\ util.pc = "walking"
    /\ Len(util.stack) > 1
    /\ util.stack[Len(util.stack)].prereqs = <<>>
    /\ util' = [util EXCEPT !.stack = SubSeq(@, 1, Len(@) - 1)]
    /\ UNCHANGED <<ruleset, bound, b, last, history, other>>

\* The call of get is over.
ended(p) == [p EXCEPT !.stack = <<>>, !.pc = "ended"]

\* The outermost call has returned: _execute sorts the prerequisites and
\* runs the rules, and get returns or raises.
PlanExecute ==
    /\ util.op = "plan"
    /\ util.pc = "walking"
    /\ Len(util.stack) = 1
    /\ util.stack[1].prereqs = <<>>
    /\ \E o \in {outcome(util.thing, b.doneRules,
                         executeSorted(ruleset, b, util.outRule,
                                       sortPrereqs(util.undonePrereqs)))} :
          /\ b' = o.b
          /\ last' = o.last
          /\ history' = Append(history, [thing |-> util.thing,
                                         status |-> o.last.status])
    /\ util' = ended(util)
    /\ ruleset' = sharedAfterGet(ruleset, b.doneRules, util.thing)
    /\ UNCHANGED <<bound, other>>

\* What PlanExecute does to util.
PlanEnds ==
    /\ util.op = "plan"
    /\ util.pc = "walking"
    /\ Len(util.stack) = 1
    /\ util.stack[1].prereqs = <<>>
    /\ util' = ended(util)

\* A get in one step, for the rules done before the get that is taken apart.
GetBefore == util = NoUtil /\ history = <<>> /\ Get

AgainstFirst == util = NoUtil /\ ~bound /\ Against

NextPlan ==
    AgainstFirst \/ GetBefore \/ PlanStart \/ PlanStep \/ PlanReturn \/ PlanExecute

SpecPlan == Init /\ [][NextPlan]_vars

\* The loop of _prerequisitesTo and _execute are straight-line code: a call
\* that has begun goes on.  The steps that change util as PlanEnds does are
\* those of PlanExecute.
SpecPlanFair == SpecPlan /\ WF_vars(PlanStep \/ PlanReturn) /\ WF_util(PlanEnds)

\* The (prerequisite, dependent) pairs a map of _prerequisitesTo holds.
edgesOf(m) ==
    UNION {{<<m[i].key, m[i].val[j]>> : j \in 1..Len(m[i].val)} : i \in 1..Len(m)}

\* A get has been begun and has neither returned nor raised.
walking == util.op = "plan" /\ util.pc = "walking"

\* The get that was begun has returned or raised.
planEnded ==
    /\ util.op = "plan"
    /\ util.pc = "ended"
    /\ last.op = "get"
    /\ last.thing = util.thing

\* _prerequisitesTo is called at most once with each rule, and only with the
\* requested rule and rules that are not done.
expandedOnce ==
    util.op = "plan" =>
        /\ \A i, j \in 1..Len(util.expanded) :
              util.expanded[i] = util.expanded[j] => i = j
        /\ walking =>
              \A i \in 2..Len(util.expanded) : util.expanded[i] \notin b.doneRules

\* When the walk is over, _prerequisitesTo has been called with the requested
\* rule and each undone rule it needs, the map holds every edge from an undone
\* prerequisite to one of those rules, and it is the map _prerequisitesTo
\* returns.
edgesRecorded ==
    planEnded =>
        /\ Range(util.expanded) = neededByLast \ last.doneBefore
        /\ edgesOf(util.undonePrereqs) =
              {e \in (1..Len(ruleset.inRules)) \X Range(util.expanded) :
                  /\ e[1] \in needs(util.outRule, e[2])
                  /\ e[1] \notin last.doneBefore}
        /\ util.undonePrereqs =
              prerequisitesTo(ruleset, util.outRule, last.doneBefore, OutId)

\* C40: on every ruleset, cyclic or not, _prerequisitesTo is called at most
\* once with each rule that is not done and records every edge from an undone
\* prerequisite to its dependent, and a get that has begun returns a result
\* or raises an error.
C40_PlanningTerminates ==
    /\ [](expandedOnce /\ edgesRecorded)
    /\ (util.op = "plan") ~> planEnded

\* A get on a ruleset with a cycle ended with the cycle error after a rule
\* was met a second time in the walk.
C40_Witness ==
    /\ planEnded
    /\ last.status = "cycle"
    /\ \E i \in 1..Len(util.undonePrereqs) : Len(util.undonePrereqs[i].val) > 1

====
